---- MODULE Spec2Model ----
(***************************************************************************)
(* Model of the housing-market-intelligence-platform deployment tooling:   *)
(* the teardown orchestrator (cleanup.py, ResourceCleaner) and the         *)
(* deployment orchestrator (deploy.py, HousingMarketDeployer) and the      *)
(* cost estimator (cost_estimator.py, CostEstimator).                      *)
(*                                                                         *)
(* Both utilities are single-threaded sequences of provider calls.  One    *)
(* action models one step of the code (a gate, one provider call with its  *)
(* handler, or one loop iteration).  The cloud provider is the             *)
(* environment: the response of every call (a listing, success, or the     *)
(* class of the exception raised) is chosen nondeterministically when the  *)
(* call is made.  Every call is appended to `calls` with its result, and   *)
(* the lines the claims speak about are appended to `out`.                 *)
(*                                                                         *)
(* Exception classes follow botocore: ClientError is what the service      *)
(* returns (including "does not exist"); WaiterError (raised by            *)
(* waiter.wait) and EndpointConnectionError are BotoCoreError subclasses   *)
(* and are NOT ClientError; all of them are Exception.                     *)
(***************************************************************************)
EXTENDS Integers, Sequences, FiniteSets, TLC

VARIABLES
    tool,                  \* which utility this run is: "cleanup" or "deploy"
    pc,                    \* position of the run in cleanup() / deploy()
    environment,           \* --environment
    confirm,               \* what the operator typed at the prompt ("unset": not asked)
    account,               \* what the provider account holds when the run starts
    project,               \* the files of the local checkout (deploy only)
    calls,                 \* provider / filesystem calls issued so far, in order
    out,                   \* lines printed so far (the ones the claims are about)
    raised,                \* an exception escaped cleanup() / deploy()
    idx,                   \* index of the running for-loop
    \* ---- cleanup.py: ResourceCleaner
    dry_run,               \* self.dry_run
    force,                 \* cleanup(force=...)
    buckets_to_delete,     \* self.buckets_to_delete ("unset" before discovery)
    log_groups_to_delete,  \* self.log_groups_to_delete ("unset" before discovery)
    listing,               \* response of get_jobs / get_crawlers / get_tables being iterated
    cleanup_summary,       \* self.cleanup_summary
    \* ---- deploy.py: HousingMarketDeployer
    skip_confirmation,     \* deploy(skip_confirmation=...)
    build_dir,             \* files under build/, in the order they were written
    main_success,          \* local of deploy()
    main_outputs,          \* local of deploy()
    appflow_success,       \* local of deploy()
    \* ---- cost_estimator.py: CostEstimator
    data_volume,           \* --data-volume
    output,                \* --output ("": the flag is not given)
    estimator,             \* the CostEstimator object (self)
    costs,                 \* local of generate_report: the dict of line items
    totals,                \* locals total_hourly, total_daily, total_monthly
    report,                \* local of generate_report: the lines of the report
    breakdown,             \* category_cost and percentage of each category so far
    evaluations            \* what generate_report returned so far, in order

vars == <<tool, pc, environment, confirm, account, project, calls, out, raised, idx,
          dry_run, force, buckets_to_delete, log_groups_to_delete, listing,
          cleanup_summary,
          skip_confirmation, build_dir, main_success, main_outputs, appflow_success,
          data_volume, output, estimator, costs, totals, report, breakdown, evaluations>>

cleanupVars == <<dry_run, force, buckets_to_delete, log_groups_to_delete, listing,
                 cleanup_summary>>
deployVars == <<skip_confirmation, build_dir, main_success, main_outputs, appflow_success>>
argVars == <<tool, environment, account, project, dry_run, force, skip_confirmation>>
inputVars == <<argVars, confirm>>
costVars == <<data_volume, output, estimator, costs, totals, report, breakdown, evaluations>>

\* a run of cleanup.py or deploy.py has no estimator
NoEstimator ==
    /\ data_volume = "unset"
    /\ output = "unset"
    /\ estimator = "unset"
    /\ costs = "unset"
    /\ totals = "unset"
    /\ report = "unset"
    /\ breakdown = "unset"
    /\ evaluations = "unset"

(***************************************************************************)
(* Bounds of the model.                                                    *)
(***************************************************************************)
MaxHeld == 3         \* resources of each kind the account may hold
MaxFaults == 2       \* provider calls that fail with an error in one run

(***************************************************************************)
(* Python str operations (TLC strings support Len, SubSeq and \o).         *)
(***************************************************************************)
Min(a, b) == IF a < b THEN a ELSE b

\* str.startswith
StartsWith(s, p) == Len(s) >= Len(p) /\ SubSeq(s, 1, Len(p)) = p

\* `p in s` for non-empty p
Contains(s, p) == \E i \in 1..(Len(s) - Len(p) + 1) : SubSeq(s, i, i + Len(p) - 1) = p

UpperCase == "ABCDEFGHIJKLMNOPQRSTUVWXYZ"
LowerCase == "abcdefghijklmnopqrstuvwxyz"

LowerChar(c) ==
    IF \E i \in 1..Len(UpperCase) : SubSeq(UpperCase, i, i) = c
    THEN LET i == CHOOSE j \in 1..Len(UpperCase) : SubSeq(UpperCase, j, j) = c
         IN SubSeq(LowerCase, i, i)
    ELSE c

\* str.lower
RECURSIVE Lower(_)
Lower(s) ==
    IF Len(s) = 0 THEN ""
    ELSE LowerChar(SubSeq(s, 1, 1)) \o Lower(SubSeq(s, 2, Len(s)))

\* the elements of a sequence that are in `keep`, in order (a list comprehension)
RECURSIVE SelectSeqBy(_, _)
SelectSeqBy(s, keep) ==
    IF s = <<>> THEN <<>>
    ELSE (IF Head(s) \in keep THEN <<Head(s)>> ELSE <<>>) \o SelectSeqBy(Tail(s), keep)

Range(s) == {s[i] : i \in 1..Len(s)}

\* every sub-list of s that keeps the order of s
SubLists(s) == {SelectSeqBy(s, K) : K \in SUBSET Range(s)}

Prefix(s, n) == SubSeq(s, 1, Min(n, Len(s)))

\* ---------------------------------------------------------------------------
\* Numbers of the cost estimator.  Python's int is unbounded and its float is
\* an IEEE 754 binary64; the amounts of a report exceed 32 bits once they are
\* scaled, so a natural is kept as a sequence of limbs (least significant
\* first, no leading zero limb) and a float as mantissa and exponent.
\* ---------------------------------------------------------------------------
\* The largest power of two whose square still fits 32 bits.
Base == 2^15
LimbWidth == CHOOSE w \in 1..31 : 2^w = Base

RECURSIVE NatOf(_)
NatOf(i) == IF i = 0 THEN <<>> ELSE <<i % Base>> \o NatOf(i \div Base)

RECURSIVE IntOf(_)
IntOf(a) == IF a = <<>> THEN 0 ELSE a[1] + Base * IntOf(Tail(a))

\* a without its leading zero limbs
RECURSIVE Norm(_)
Norm(a) ==
    IF a = <<>> THEN <<>>
    ELSE IF a[Len(a)] = 0 THEN Norm(SubSeq(a, 1, Len(a) - 1))
    ELSE a

Limb(a) == IF a = <<>> THEN 0 ELSE a[1]
Rest(a) == IF a = <<>> THEN <<>> ELSE Tail(a)

\* a + b + c for a carry c
RECURSIVE NAddC(_, _, _)
NAddC(a, b, c) ==
    IF a = <<>> /\ b = <<>> THEN (IF c = 0 THEN <<>> ELSE <<c>>)
    ELSE <<(Limb(a) + Limb(b) + c) % Base>>
         \o NAddC(Rest(a), Rest(b), (Limb(a) + Limb(b) + c) \div Base)

NAdd(a, b) == NAddC(a, b, 0)

\* a - b - c for a >= b + c and a borrow c
RECURSIVE NSubB(_, _, _)
NSubB(a, b, c) ==
    IF a = <<>> THEN <<>>
    ELSE <<(a[1] - Limb(b) - c) % Base>>
         \o NSubB(Tail(a), Rest(b), IF a[1] - Limb(b) - c < 0 THEN 1 ELSE 0)

NSub(a, b) == Norm(NSubB(a, b, 0))

\* -1, 0 or 1 as a < b, a = b or a > b, for a and b of the same length
RECURSIVE NCmpFrom(_, _, _)
NCmpFrom(a, b, i) ==
    IF i = 0 THEN 0
    ELSE IF a[i] < b[i] THEN -1
    ELSE IF a[i] > b[i] THEN 1
    ELSE NCmpFrom(a, b, i - 1)

NCmp(a, b) ==
    IF Len(a) < Len(b) THEN -1
    ELSE IF Len(a) > Len(b) THEN 1
    ELSE NCmpFrom(a, b, Len(a))

\* a * k + c for a small k (0 < k <= Base)
RECURSIVE NMulSmall(_, _, _)
NMulSmall(a, k, c) ==
    IF a = <<>> THEN NatOf(c)
    ELSE <<(a[1] * k + c) % Base>> \o NMulSmall(Tail(a), k, (a[1] * k + c) \div Base)

\* a * Base^n
ShiftLimbs(a, n) == IF a = <<>> THEN <<>> ELSE [i \in 1..n |-> 0] \o a

RECURSIVE NMul(_, _)
NMul(a, b) ==
    IF a = <<>> \/ b = <<>> THEN <<>>
    ELSE NAdd(IF b[1] = 0 THEN <<>> ELSE NMulSmall(a, b[1], 0),
              ShiftLimbs(NMul(a, Tail(b)), 1))

\* the number of bits of a (0 for zero)
RECURSIVE SmallBits(_)
SmallBits(i) == IF i = 0 THEN 0 ELSE 1 + SmallBits(i \div 2)

BitLen(a) == IF a = <<>> THEN 0 ELSE LimbWidth * (Len(a) - 1) + SmallBits(a[Len(a)])

\* bit j of a (bit 0 is the lowest)
Bit(a, j) ==
    IF j \div LimbWidth + 1 > Len(a) THEN 0
    ELSE (a[j \div LimbWidth + 1] \div 2^(j % LimbWidth)) % 2

\* some bit of a below bit j is set
AnyBitBelow(a, j) ==
    \E i \in 1..Len(a) :
        \/ i <= j \div LimbWidth /\ a[i] # 0
        \/ i = j \div LimbWidth + 1 /\ a[i] % 2^(j % LimbWidth) # 0

\* a * 2^n
ShiftLeft(a, n) == ShiftLimbs(NMulSmall(a, 2^(n % LimbWidth), 0), n \div LimbWidth)

\* floor(a / 2^s) for s < LimbWidth
ShiftRightBits(a, s) ==
    Norm([i \in 1..Len(a) |->
            a[i] \div 2^s
            + (IF i < Len(a) THEN a[i + 1] % 2^s ELSE 0) * 2^(LimbWidth - s)])

\* floor(a / 2^n)
ShiftRight(a, n) ==
    IF n \div LimbWidth >= Len(a) THEN <<>>
    ELSE ShiftRightBits(SubSeq(a, n \div LimbWidth + 1, Len(a)), n % LimbWidth)

\* the largest d in lo..hi with b * d <= r (b * lo <= r is given)
RECURSIVE QuotientLimb(_, _, _, _)
QuotientLimb(r, b, lo, hi) ==
    IF lo = hi THEN lo
    ELSE IF NCmp(NMulSmall(b, (lo + hi + 1) \div 2, 0), r) <= 0
         THEN QuotientLimb(r, b, (lo + hi + 1) \div 2, hi)
         ELSE QuotientLimb(r, b, lo, (lo + hi + 1) \div 2 - 1)

\* long division: [q, r] with a's limbs from i upwards = q * b + r and r < b
NDivModLimb(r0, b, d, q) ==
    [q |-> <<d>> \o q, r |-> IF d = 0 THEN r0 ELSE NSub(r0, NMulSmall(b, d, 0))]
NDivModStep(r0, b, q) ==
    NDivModLimb(r0, b, IF NCmp(r0, b) < 0 THEN 0 ELSE QuotientLimb(r0, b, 1, Base - 1), q)
RECURSIVE NDivModFrom(_, _, _)
NDivModNext(a, b, i, hi) == NDivModStep(Norm(<<a[i]>> \o hi.r), b, hi.q)
NDivModFrom(a, b, i) ==
    IF i > Len(a) THEN [q |-> <<>>, r |-> <<>>]
    ELSE NDivModNext(a, b, i, NDivModFrom(a, b, i + 1))

\* --- binary64 ----------------------------------------------------------------
\* A float is zero, [m |-> <<>>, e |-> 0], or m * 2^e with m of exactly
\* Precision bits; every amount of the estimator is non-negative and far from
\* the exponent limits, so sign, subnormals and infinities do not occur.
Precision == 53
Zero == [m |-> <<>>, e |-> 0]

\* n / 2^t (t > 0) rounded to nearest, ties to even; sticky says that the
\* exact value is above n by less than one
RoundShift(n, t, sticky) ==
    IF Bit(n, t - 1) = 1 /\ (AnyBitBelow(n, t - 1) \/ sticky \/ Bit(n, t) = 1)
    THEN NAdd(ShiftRight(n, t), <<1>>)
    ELSE ShiftRight(n, t)

\* m * 2^e for an m of Precision or Precision + 1 bits
Renorm(m, e) ==
    IF BitLen(m) > Precision THEN [m |-> ShiftRight(m, 1), e |-> e + 1]
    ELSE [m |-> m, e |-> e]

\* n * 2^e rounded to a float, for n of Precision + t bits
RoundBitsBy(n, e, sticky, t) ==
    IF t <= 0 THEN [m |-> ShiftLeft(n, -t), e |-> e + t]
    ELSE Renorm(RoundShift(n, t, sticky), e + t)

RoundBits(n, e, sticky) ==
    IF n = <<>> THEN Zero ELSE RoundBitsBy(n, e, sticky, BitLen(n) - Precision)

\* (n / d) * 2^e rounded to a float: the quotient is taken to Precision + 2
\* or + 3 bits and the remainder is the sticky bit
RoundDivided(x, e) == RoundBits(Norm(x.q), e, x.r # <<>>)
RoundQuotientBy(n, d, e, s) ==
    RoundDivided(IF s >= 0 THEN NDivModFrom(ShiftLeft(n, s), d, 1)
                           ELSE NDivModFrom(n, ShiftLeft(d, -s), 1), e - s)
RoundQuotient(n, d, e) ==
    IF n = <<>> THEN Zero
    ELSE RoundQuotientBy(n, d, e, Precision + 2 - (BitLen(n) - BitLen(d)))

\* float(i) for an int i
Float(i) == RoundBits(NatOf(i), 0, FALSE)

FMul(a, b) ==
    IF a = Zero \/ b = Zero THEN Zero ELSE RoundBits(NMul(a.m, b.m), a.e + b.e, FALSE)

FDiv(a, b) == IF a = Zero THEN Zero ELSE RoundQuotient(a.m, b.m, a.e - b.e)

FAddAt(a, b, e) == RoundBits(NAdd(ShiftLeft(a.m, a.e - e), ShiftLeft(b.m, b.e - e)), e, FALSE)
FAdd(a, b) ==
    IF a = Zero THEN b
    ELSE IF b = Zero THEN a
    ELSE FAddAt(a, b, IF a.e < b.e THEN a.e ELSE b.e)

\* a < b
FLt(a, b) ==
    IF b = Zero THEN FALSE
    ELSE IF a = Zero THEN TRUE
    ELSE a.e < b.e \/ (a.e = b.e /\ NCmp(a.m, b.m) < 0)

\* sum(s): 0 + s[1] + s[2] + ...
RECURSIVE FSum(_)
FSum(s) == IF s = <<>> THEN Zero ELSE FAdd(FSum(SubSeq(s, 1, Len(s) - 1)), s[Len(s)])

RECURSIVE Pow10(_)
Pow10(k) == IF k = 0 THEN <<1>> ELSE NMulSmall(Pow10(k - 1), 10, 0)

\* the decimal literal n / 10^k: the float nearest to it
Lit(n, k) == RoundQuotient(NatOf(n), Pow10(k), 0)

\* format(x, '.<k>f'): x * 10^k rounded to an integer, ties to even
Fixed(x, k) ==
    IF x = Zero THEN 0
    ELSE IF x.e >= 0 THEN IntOf(ShiftLeft(NMul(x.m, Pow10(k)), x.e))
    ELSE IntOf(RoundShift(NMul(x.m, Pow10(k)), -x.e, FALSE))

\* an f-string: its text with the placeholders, and the values placed in them
Text(t, v) == [text |-> t, values |-> v]

\* str.upper
UpperChar(c) ==
    IF \E i \in 1..Len(LowerCase) : SubSeq(LowerCase, i, i) = c
    THEN LET i == CHOOSE j \in 1..Len(LowerCase) : SubSeq(LowerCase, j, j) = c
         IN SubSeq(UpperCase, i, i)
    ELSE c

RECURSIVE Upper(_)
Upper(s) ==
    IF Len(s) = 0 THEN ""
    ELSE UpperChar(SubSeq(s, 1, 1)) \o Upper(SubSeq(s, 2, Len(s)))

\* ch * n
RECURSIVE Repeat(_, _)
Repeat(ch, n) == IF n = 0 THEN "" ELSE ch \o Repeat(ch, n - 1)

(***************************************************************************)
(* Configuration (cleanup.py __init__, argparse choices).                  *)
(***************************************************************************)
project_name == "housing-market-intel"

Environments == {"dev", "staging", "prod"}

\* the stack names listed in deployment order
stack_names_MainFirst(env) == << project_name \o "-" \o env \o "-main",
                                 project_name \o "-" \o env \o "-appflow" >>

\* f'{self.project_name}-{environment}-appflow', f'...-main'
stack_names(env) == << project_name \o "-" \o env \o "-appflow",
                       project_name \o "-" \o env \o "-main" >>

NewSummary == [stacks_deleted |-> <<>>, buckets_emptied |-> <<>>,
               log_groups_deleted |-> <<>>, errors |-> <<>>]

(***************************************************************************)
(* The provider: what the account may hold, and how calls may end.         *)
(***************************************************************************)
\* The names the account may hold, of this project's environments and of
\* others; Account(k) holds the first k of each kind.
BucketNames == << "housing-market-intel-dev-raw-data",
                  "housing-market-intel-prod-raw-data",
                  "housing-market-intel-dev-processed-data",
                  "another-team-bucket",
                  "housing-market-intel-dev-glue-scripts" >>

LogGroupNames == << "/aws/lambda/housing-market-intel-dev-rag-query",
                    "/aws/glue/housing-market-intel-prod-etl",
                    "/aws/glue/housing-market-intel-dev-etl",
                    "/aws/opensearch/housing-market-intel-dev-domain" >>

JobNames == << "housing-market-intel-dev-etl-job",
               "unrelated-job",
               "housing-market-intel-dev-embedding-job",
               "housing-market-intel-prod-etl-job" >>

CrawlerNames == << "housing-market-intel-dev-raw-crawler",
                   "housing-market-intel-prod-raw-crawler",
                   "housing-market-intel-dev-processed-crawler",
                   "unrelated-crawler" >>

DatabaseNames == << "housing-market-intel_prod_db", "housing-market-intel_dev_db" >>

TableNames == << "listings", "tax_records", "embeddings", "permits" >>

StackNames == << "housing-market-intel-prod-main",
                 "housing-market-intel-dev-main",
                 "housing-market-intel-dev-appflow",
                 "housing-market-intel-prod-appflow" >>

StackStatuses == {"CREATE_COMPLETE"}

Account(k) == [buckets |-> Prefix(BucketNames, k),
               log_groups |-> Prefix(LogGroupNames, k),
               jobs |-> Prefix(JobNames, k),
               crawlers |-> Prefix(CrawlerNames, k),
               databases |-> Prefix(DatabaseNames, k),
               tables |-> Prefix(TableNames, k),
               stacks |-> Prefix(StackNames, k)]

Accounts == {Account(k) : k \in 0..MaxHeld}

\* How a call ends: exc is the class of the exception raised ("" for a
\* normal return), msg is str(e).
OK == [exc |-> "", msg |-> ""]
StackAbsent == [exc |-> "ClientError",
                msg |-> "An error occurred (ValidationError): Stack does not exist"]
NoUpdates == [exc |-> "ClientError",
              msg |-> "An error occurred (ValidationError) when calling the UpdateStack operation: No updates are to be performed."]
AccessDenied == [exc |-> "ClientError", msg |-> "An error occurred (AccessDenied)"]
NoSuchBucket == [exc |-> "NoSuchBucket", msg |-> "An error occurred (NoSuchBucket)"]
BucketNotEmpty == [exc |-> "ClientError", msg |-> "An error occurred (BucketNotEmpty)"]
EntityNotFound == [exc |-> "EntityNotFoundException",
                   msg |-> "An error occurred (EntityNotFoundException)"]
ConnectionError == [exc |-> "EndpointConnectionError",
                    msg |-> "Could not connect to the endpoint URL"]
WaiterFailed == [exc |-> "WaiterError",
                 msg |-> "Waiter encountered a terminal failure state"]
WaiterTimeout == [exc |-> "WaiterError", msg |-> "Max attempts exceeded"]

\* botocore class hierarchy: the modelled service exceptions derive from
\* ClientError; WaiterError and EndpointConnectionError do not.
IsClientError(e) ==
    e.exc \in {"ClientError", "NoSuchBucket", "EntityNotFoundException",
               "BucketAlreadyOwnedByYou"}
Failed(e) == e.exc # ""

\* Outcomes that are provider faults (as opposed to "the resource is not
\* there" or "nothing to do"); a run sees at most MaxFaults of them.
PipFailed == [exc |-> "CalledProcessError", msg |-> "pip returned non-zero exit status 1"]
UploadFailed == [exc |-> "S3UploadFailedError", msg |-> "Failed to upload"]
BucketAlreadyOwnedByYou == [exc |-> "BucketAlreadyOwnedByYou",
                            msg |-> "An error occurred (BucketAlreadyOwnedByYou)"]
FileNotFound == [exc |-> "FileNotFoundError", msg |-> "No such file or directory"]
FaultOutcomes == {AccessDenied, BucketNotEmpty, ConnectionError, WaiterFailed, WaiterTimeout,
                  PipFailed, UploadFailed}
IsFault(c) == [exc |-> c.exc, msg |-> c.msg] \in FaultOutcomes
Faults == Cardinality({i \in DOMAIN calls : IsFault(calls[i])})
May(e) == e \notin FaultOutcomes \/ Faults < MaxFaults

\* A call as recorded in `calls`: the operation, its main argument (the
\* resource name), its further arguments, how it ended, and the position of
\* the run that issued it.
EmptyMap == [k \in {} |-> ""]
CallP(op, arg, params, e) ==
    [op |-> op, arg |-> arg, params |-> params, exc |-> e.exc, msg |-> e.msg, at |-> pc]
Call(op, arg, e) == CallP(op, arg, EmptyMap, e)

\* The provider calls that change provider state.
MutatingOps == {"object_versions.delete", "delete_job", "stop_crawler", "delete_crawler",
                "delete_table", "delete_database", "delete_stack", "delete_log_group",
                "delete_bucket", "create_bucket", "upload_file", "create_stack",
                "update_stack"}

(***************************************************************************)
(* cleanup.py: ResourceCleaner.cleanup                                     *)
(***************************************************************************)
\* what the operator may type at the prompt of cleanup()
CleanupAnswers == Environments \cup {"", "y", "DEV"}

\* a gate that compares without regard to case
CleanupCancelled_IgnoresCase(answer, env) == Lower(answer) # Lower(env)

\* `confirm != self.environment` (line 112)
CleanupCancelled(answer, env) == answer # env

\* the confirmation gate of cleanup(): lines 102-114
cleanup_confirm ==
    /\ tool = "cleanup" /\ pc = "start"
    /\ IF ~force /\ ~dry_run
       THEN \E answer \in CleanupAnswers :
            /\ confirm' = answer
            /\ IF CleanupCancelled(answer, environment)
               THEN /\ out' = Append(out, "Cleanup cancelled")
                    /\ pc' = "done"
               ELSE /\ out' = Append(out, "PHASE 1: Resource Discovery")
                    /\ pc' = "discover_buckets"
       ELSE /\ confirm' = confirm
            /\ out' = Append(out, "PHASE 1: Resource Discovery")
            /\ pc' = "discover_buckets"
    /\ UNCHANGED <<costVars, argVars, calls, raised, idx, buckets_to_delete, log_groups_to_delete,
                   listing, cleanup_summary, deployVars>>

\* the handler of cleanup(): print the error and re-raise (lines 141-143)
CleanupFailed(e) ==
    /\ out' = Append(out, "Cleanup failed: " \o e.msg)
    /\ raised' = TRUE
    /\ pc' = "done"

\* b['Name'].startswith(prefix), lines 152-156
MatchingBuckets(response, env) ==
    SelectSeqBy(response, {b \in Range(response) : StartsWith(b, project_name \o "-" \o env)})

\* a bucket discovery that lists nothing in a dry run
discover_buckets_SkipsWhenDry ==
    /\ tool = "cleanup" /\ pc = "discover_buckets"
    /\ \/ /\ calls' = Append(calls, Call("list_buckets", "", OK))
          /\ buckets_to_delete' = IF dry_run THEN <<>>
                                  ELSE MatchingBuckets(account.buckets, environment)
          /\ out' = out
       \/ \E e \in {AccessDenied} :
            /\ May(e)
            /\ calls' = Append(calls, Call("list_buckets", "", e))
            /\ buckets_to_delete' = <<>>
            /\ out' = Append(out, "Could not list buckets: " \o e.msg)
    /\ pc' = "discover_log_groups"
    /\ UNCHANGED <<costVars, inputVars, raised, idx, log_groups_to_delete, listing, cleanup_summary,
                   deployVars>>

\* _discover_resources, S3 part (lines 149-162)
discover_buckets ==
    /\ tool = "cleanup" /\ pc = "discover_buckets"
    /\ \/ /\ calls' = Append(calls, Call("list_buckets", "", OK))
          /\ buckets_to_delete' = MatchingBuckets(account.buckets, environment)
          /\ out' = out
       \/ \E e \in {AccessDenied} :
            /\ May(e)
            /\ calls' = Append(calls, Call("list_buckets", "", e))
            /\ buckets_to_delete' = <<>>
            /\ out' = Append(out, "Could not list buckets: " \o e.msg)
    /\ pc' = "discover_log_groups"
    /\ UNCHANGED <<costVars, inputVars, raised, idx, log_groups_to_delete, listing, cleanup_summary,
                   deployVars>>

\* the three logGroupNamePrefix values, lines 170-174
log_prefixes == << "/aws/glue/" \o project_name,
                   "/aws/lambda/" \o project_name,
                   "/aws/opensearch/" \o project_name >>

\* what the loops of lines 176-180 collect when the account holds `held`:
\* the service returns the groups under each prefix, the code keeps those
\* whose name contains the environment
RECURSIVE CollectLogGroups(_, _, _)
CollectLogGroups(held, env, k) ==
    IF k > Len(log_prefixes) THEN <<>>
    ELSE SelectSeqBy(held, {g \in Range(held) :
                               StartsWith(g, log_prefixes[k]) /\ Contains(g, env)})
         \o CollectLogGroups(held, env, k + 1)

\* _discover_resources, CloudWatch part (lines 165-185)
discover_log_groups ==
    /\ tool = "cleanup" /\ pc = "discover_log_groups"
    /\ \/ /\ calls' = calls \o [k \in 1..Len(log_prefixes) |->
                                   Call("describe_log_groups", log_prefixes[k], OK)]
          /\ log_groups_to_delete' = CollectLogGroups(account.log_groups, environment, 1)
          /\ out' = out
       \/ \E e \in {AccessDenied}, n \in 1..Len(log_prefixes) :
            /\ May(e)
            /\ calls' = calls \o [k \in 1..n |->
                                     Call("describe_log_groups", log_prefixes[k],
                                          IF k = n THEN e ELSE OK)]
            /\ log_groups_to_delete' = <<>>
            /\ out' = Append(out, "Could not list log groups: " \o e.msg)
    /\ pc' = "discover_stacks"
    /\ idx' = 1
    /\ UNCHANGED <<costVars, inputVars, raised, buckets_to_delete, listing, cleanup_summary,
                   deployVars>>

\* _discover_resources, CloudFormation part: one stack of the loop (lines 189-195)
discover_stack ==
    /\ tool = "cleanup" /\ pc = "discover_stacks"
    /\ idx <= Len(stack_names(environment))
    /\ LET stack_name == stack_names(environment)[idx]
           last == idx = Len(stack_names(environment))
       IN \/ \E status \in StackStatuses :
               /\ stack_name \in Range(account.stacks)
               /\ calls' = Append(calls, Call("describe_stacks", stack_name, OK))
               /\ out' = Append(out, "  " \o stack_name \o ": " \o status)
                            \o (IF last THEN <<"PHASE 2: Empty S3 Buckets">> ELSE <<>>)
               /\ pc' = IF last THEN "empty_buckets" ELSE pc
               /\ idx' = IF last THEN 1 ELSE idx + 1
               /\ raised' = raised
          \/ \E e \in {StackAbsent, ConnectionError} :
               /\ May(e)
               /\ e = StackAbsent <=> stack_name \notin Range(account.stacks)
               /\ calls' = Append(calls, Call("describe_stacks", stack_name, e))
               /\ IF IsClientError(e)
                  THEN /\ out' = Append(out, "  " \o stack_name \o ": NOT FOUND")
                                    \o (IF last THEN <<"PHASE 2: Empty S3 Buckets">> ELSE <<>>)
                       /\ pc' = IF last THEN "empty_buckets" ELSE pc
                       /\ idx' = IF last THEN 1 ELSE idx + 1
                       /\ raised' = raised
                  ELSE /\ CleanupFailed(e)
                       /\ idx' = idx
    /\ UNCHANGED <<costVars, inputVars, buckets_to_delete, log_groups_to_delete, listing,
                   cleanup_summary, deployVars>>

\* one iteration of the loop of _empty_s3_buckets (lines 200-218), given how
\* object_versions.delete ends (e): the calls issued, the summary, the lines printed
\* an emptying step that does not look at the dry-run flag
EmptyBucketCalls_IgnoresDryRun(dry, bucket_name, e) ==
    <<Call("object_versions.delete", bucket_name, e)>>

EmptyBucketCalls(dry, bucket_name, e) ==
    IF dry THEN <<>> ELSE <<Call("object_versions.delete", bucket_name, e)>>

EmptyBucketErrorMsg(bucket_name, e) ==
    "Could not empty bucket " \o bucket_name \o ": " \o e.msg

\* an emptying step that lists the bucket as emptied before the call is made
EmptyBucketSummary_ListsBeforeCall(dry, summary, bucket_name, e) ==
    IF dry THEN summary
    ELSE IF ~Failed(e)
    THEN [summary EXCEPT !.buckets_emptied = Append(@, bucket_name)]
    ELSE [summary EXCEPT !.buckets_emptied = Append(@, bucket_name),
                         !.errors = Append(@, EmptyBucketErrorMsg(bucket_name, e))]

EmptyBucketSummary(dry, summary, bucket_name, e) ==
    IF dry THEN summary
    ELSE IF ~Failed(e)
    THEN [summary EXCEPT !.buckets_emptied = Append(@, bucket_name)]
    ELSE [summary EXCEPT !.errors = Append(@, EmptyBucketErrorMsg(bucket_name, e))]

\* an emptying step that skips a bucket in a dry run without printing the intent
EmptyBucketOut_NoIntent(dry, bucket_name, e) ==
    IF dry THEN <<>>
    ELSE IF ~Failed(e) THEN <<>>
    ELSE <<"  " \o EmptyBucketErrorMsg(bucket_name, e)>>

EmptyBucketOut(dry, bucket_name, e) ==
    IF dry THEN <<"  [DRY RUN] Would empty bucket: " \o bucket_name>>
    ELSE IF ~Failed(e) THEN <<>>
    ELSE <<"  " \o EmptyBucketErrorMsg(bucket_name, e)>>

\* _empty_s3_buckets: one bucket of the loop (lines 200-218)
empty_bucket ==
    /\ tool = "cleanup" /\ pc = "empty_buckets"
    /\ idx <= Len(buckets_to_delete)
    /\ LET bucket_name == buckets_to_delete[idx]
       IN \E e \in {OK, AccessDenied} :
          /\ dry_run => e = OK
          /\ May(e)
          /\ calls' = calls \o EmptyBucketCalls(dry_run, bucket_name, e)
          /\ cleanup_summary' = EmptyBucketSummary(dry_run, cleanup_summary, bucket_name, e)
          /\ out' = out \o EmptyBucketOut(dry_run, bucket_name, e)
    /\ idx' = idx + 1
    /\ UNCHANGED <<costVars, inputVars, pc, raised, buckets_to_delete, log_groups_to_delete, listing,
                   deployVars>>

\* a Phase 2 that is left after the first bucket
empty_buckets_done_AfterFirst ==
    /\ tool = "cleanup" /\ pc = "empty_buckets"
    /\ idx > Min(1, Len(buckets_to_delete))
    /\ out' = Append(out, "PHASE 3: Clean Glue Resources")
    /\ pc' = "glue_jobs"
    /\ listing' = "unset"
    /\ UNCHANGED <<costVars, inputVars, calls, raised, idx, dry_run, force, buckets_to_delete,
                   log_groups_to_delete, cleanup_summary, deployVars>>

\* end of the loop of _empty_s3_buckets; cleanup() goes on to Phase 3 (lines 125-127)
empty_buckets_done ==
    /\ tool = "cleanup" /\ pc = "empty_buckets"
    /\ idx > Len(buckets_to_delete)
    /\ out' = Append(out, "PHASE 3: Clean Glue Resources")
    /\ pc' = "glue_jobs"
    /\ listing' = "unset"
    /\ UNCHANGED <<costVars, inputVars, calls, raised, idx, dry_run, force, buckets_to_delete,
                   log_groups_to_delete, cleanup_summary, deployVars>>

\* f"{self.project_name}_{self.environment}_db", f"{self.project_name}-{self.environment}"
db_name(env) == project_name \o "_" \o env \o "_db"
job_prefix(env) == project_name \o "-" \o env

\* the names of a response the loops of lines 230-231 / 244-245 act on
MatchingNames(response, env) ==
    SelectSeqBy(response, {n \in Range(response) : StartsWith(n, job_prefix(env))})

CrawlerNotRunning == [exc |-> "CrawlerNotRunningException",
                      msg |-> "An error occurred (CrawlerNotRunningException)"]

\* _cleanup_glue_resources: get_jobs (lines 228-230, 237-238)
glue_get_jobs ==
    /\ tool = "cleanup" /\ pc = "glue_jobs"
    /\ \/ /\ calls' = Append(calls, Call("get_jobs", "", OK))
          /\ listing' = MatchingNames(account.jobs, environment)
          /\ pc' = "glue_job"
          /\ out' = out
       \/ \E e \in {AccessDenied} :
            /\ May(e)
            /\ calls' = Append(calls, Call("get_jobs", "", e))
            /\ listing' = "unset"
            /\ pc' = "glue_crawlers"
            /\ out' = Append(out, "Could not clean Glue jobs: " \o e.msg)
    /\ idx' = 1
    /\ UNCHANGED <<costVars, inputVars, raised, buckets_to_delete, log_groups_to_delete,
                   cleanup_summary, deployVars>>

\* a job step whose failure is caught per job, so that the loop goes on
glue_delete_job_GoesOnAfterFailure ==
    /\ tool = "cleanup" /\ pc = "glue_job"
    /\ idx <= Len(listing)
    /\ LET name == listing[idx]
       IN IF dry_run
          THEN /\ out' = Append(out, "  [DRY RUN] Would delete job: " \o name)
               /\ idx' = idx + 1
               /\ UNCHANGED <<calls, pc>>
          ELSE \E e \in {OK, AccessDenied} :
               /\ May(e)
               /\ calls' = Append(calls, Call("delete_job", name, e))
               /\ IF ~Failed(e)
                  THEN /\ out' = out
                       /\ idx' = idx + 1
                       /\ pc' = pc
                  ELSE /\ out' = Append(out, "Could not clean Glue jobs: " \o e.msg)
                       /\ idx' = idx + 1
                       /\ pc' = pc
    /\ UNCHANGED <<costVars, inputVars, raised, buckets_to_delete, log_groups_to_delete, listing,
                   cleanup_summary, deployVars>>

\* _cleanup_glue_resources: one matching job of the loop (lines 230-238)
glue_delete_job ==
    /\ tool = "cleanup" /\ pc = "glue_job"
    /\ idx <= Len(listing)
    /\ LET name == listing[idx]
       IN IF dry_run
          THEN /\ out' = Append(out, "  [DRY RUN] Would delete job: " \o name)
               /\ idx' = idx + 1
               /\ UNCHANGED <<calls, pc>>
          ELSE \E e \in {OK, AccessDenied} :
               /\ May(e)
               /\ calls' = Append(calls, Call("delete_job", name, e))
               /\ IF ~Failed(e)
                  THEN /\ out' = out
                       /\ idx' = idx + 1
                       /\ pc' = pc
                  ELSE \* the exception leaves the for loop
                       /\ out' = Append(out, "Could not clean Glue jobs: " \o e.msg)
                       /\ idx' = 1
                       /\ pc' = "glue_crawlers"
    /\ UNCHANGED <<costVars, inputVars, raised, buckets_to_delete, log_groups_to_delete, listing,
                   cleanup_summary, deployVars>>

glue_jobs_done ==
    /\ tool = "cleanup" /\ pc = "glue_job"
    /\ idx > Len(listing)
    /\ pc' = "glue_crawlers"
    /\ idx' = 1
    /\ UNCHANGED <<costVars, inputVars, calls, out, raised, buckets_to_delete, log_groups_to_delete,
                   listing, cleanup_summary, deployVars>>

\* _cleanup_glue_resources: get_crawlers (lines 242-244, 257-258)
glue_get_crawlers ==
    /\ tool = "cleanup" /\ pc = "glue_crawlers"
    /\ \/ /\ calls' = Append(calls, Call("get_crawlers", "", OK))
          /\ listing' = MatchingNames(account.crawlers, environment)
          /\ pc' = "glue_crawler"
          /\ out' = out
       \/ \E e \in {AccessDenied} :
            /\ May(e)
            /\ calls' = Append(calls, Call("get_crawlers", "", e))
            /\ listing' = "unset"
            /\ pc' = "glue_database"
            /\ out' = Append(out, "Could not clean Glue crawlers: " \o e.msg)
    /\ idx' = 1
    /\ UNCHANGED <<costVars, inputVars, raised, buckets_to_delete, log_groups_to_delete,
                   cleanup_summary, deployVars>>

\* a crawler step in which a failed stop leaves the loop like a failed delete
glue_delete_crawler_StopFailureSkips ==
    /\ tool = "cleanup" /\ pc = "glue_crawler"
    /\ idx <= Len(listing)
    /\ LET name == listing[idx]
       IN IF dry_run
          THEN /\ out' = Append(out, "  [DRY RUN] Would delete crawler: " \o name)
               /\ idx' = idx + 1
               /\ UNCHANGED <<calls, pc>>
          ELSE \E s \in {OK, CrawlerNotRunning, AccessDenied} :
               /\ May(s)
               /\ IF Failed(s)
                  THEN /\ calls' = Append(calls, Call("stop_crawler", name, s))
                       /\ out' = Append(out, "Could not clean Glue crawlers: " \o s.msg)
                       /\ idx' = 1
                       /\ pc' = "glue_database"
                  ELSE \E e \in {OK, AccessDenied} :
                       /\ May(e)
                       /\ calls' = calls \o << Call("stop_crawler", name, s),
                                               Call("time.sleep", "5", OK),
                                               Call("delete_crawler", name, e) >>
                       /\ IF ~Failed(e)
                          THEN /\ out' = out
                               /\ idx' = idx + 1
                               /\ pc' = pc
                          ELSE /\ out' = Append(out, "Could not clean Glue crawlers: " \o e.msg)
                               /\ idx' = 1
                               /\ pc' = "glue_database"
    /\ UNCHANGED <<costVars, inputVars, raised, buckets_to_delete, log_groups_to_delete, listing,
                   cleanup_summary, deployVars>>

\* _cleanup_glue_resources: one matching crawler of the loop (lines 244-258):
\* stop (any failure ignored), sleep after a successful stop, then delete
glue_delete_crawler ==
    /\ tool = "cleanup" /\ pc = "glue_crawler"
    /\ idx <= Len(listing)
    /\ LET name == listing[idx]
       IN IF dry_run
          THEN /\ out' = Append(out, "  [DRY RUN] Would delete crawler: " \o name)
               /\ idx' = idx + 1
               /\ UNCHANGED <<calls, pc>>
          ELSE \E s \in {OK, CrawlerNotRunning, AccessDenied} :
               /\ May(s)
               /\ LET stopped == Append(calls, Call("stop_crawler", name, s))
                                    \o (IF Failed(s) THEN <<>>
                                        ELSE <<Call("time.sleep", "5", OK)>>)
                      faults == Faults + (IF s \in FaultOutcomes THEN 1 ELSE 0)
                  IN \E e \in {OK, AccessDenied} :
                     /\ e \notin FaultOutcomes \/ faults < MaxFaults
                     /\ calls' = Append(stopped, Call("delete_crawler", name, e))
                     /\ IF ~Failed(e)
                        THEN /\ out' = out
                             /\ idx' = idx + 1
                             /\ pc' = pc
                        ELSE /\ out' = Append(out, "Could not clean Glue crawlers: " \o e.msg)
                             /\ idx' = 1
                             /\ pc' = "glue_database"
    /\ UNCHANGED <<costVars, inputVars, raised, buckets_to_delete, log_groups_to_delete, listing,
                   cleanup_summary, deployVars>>

glue_crawlers_done ==
    /\ tool = "cleanup" /\ pc = "glue_crawler"
    /\ idx > Len(listing)
    /\ pc' = "glue_database"
    /\ idx' = 1
    /\ UNCHANGED <<costVars, inputVars, calls, out, raised, buckets_to_delete, log_groups_to_delete,
                   listing, cleanup_summary, deployVars>>

\* a database step that lists the tables but deletes none of them
glue_get_tables_SkipsTables ==
    /\ tool = "cleanup" /\ pc = "glue_database"
    /\ IF dry_run
       THEN /\ out' = Append(Append(out, "  [DRY RUN] Would delete database: "
                                            \o db_name(environment)),
                             "PHASE 4: Delete CloudFormation Stacks")
            /\ pc' = "delete_stacks"
            /\ listing' = "unset"
            /\ calls' = calls
       ELSE /\ out' = out
            /\ \/ /\ db_name(environment) \in Range(account.databases)
                  /\ calls' = Append(calls, Call("get_tables", db_name(environment), OK))
                  /\ listing' = account.tables
                  /\ pc' = "glue_delete_database"
               \/ \E e \in {EntityNotFound, AccessDenied} :
                    /\ May(e)
                    /\ e = EntityNotFound <=> db_name(environment) \notin Range(account.databases)
                    /\ calls' = Append(calls, Call("get_tables", db_name(environment), e))
                    /\ listing' = "unset"
                    /\ pc' = "glue_delete_database"
    /\ idx' = 1
    /\ UNCHANGED <<costVars, inputVars, raised, buckets_to_delete, log_groups_to_delete,
                   cleanup_summary, deployVars>>

\* _cleanup_glue_resources: the database, dry-run branch and get_tables
\* (lines 261-268, 274-275); a failed get_tables is swallowed
glue_get_tables ==
    /\ tool = "cleanup" /\ pc = "glue_database"
    /\ IF dry_run
       THEN /\ out' = Append(Append(out, "  [DRY RUN] Would delete database: "
                                            \o db_name(environment)),
                             "PHASE 4: Delete CloudFormation Stacks")
            /\ pc' = "delete_stacks"
            /\ listing' = "unset"
            /\ calls' = calls
       ELSE /\ out' = out
            /\ \/ /\ db_name(environment) \in Range(account.databases)
                  /\ calls' = Append(calls, Call("get_tables", db_name(environment), OK))
                  /\ listing' = account.tables
                  /\ pc' = "glue_table"
               \/ \E e \in {EntityNotFound, AccessDenied} :
                    /\ May(e)
                    /\ e = EntityNotFound <=> db_name(environment) \notin Range(account.databases)
                    /\ calls' = Append(calls, Call("get_tables", db_name(environment), e))
                    /\ listing' = "unset"
                    /\ pc' = "glue_delete_database"
    /\ idx' = 1
    /\ UNCHANGED <<costVars, inputVars, raised, buckets_to_delete, log_groups_to_delete,
                   cleanup_summary, deployVars>>

\* one table of the loop of lines 269-275; a failed delete_table leaves the
\* inner try and is swallowed
glue_delete_table ==
    /\ tool = "cleanup" /\ pc = "glue_table"
    /\ idx <= Len(listing)
    /\ \E e \in {OK, AccessDenied} :
         /\ May(e)
         /\ calls' = Append(calls, Call("delete_table", listing[idx], e))
         /\ IF ~Failed(e)
            THEN /\ idx' = idx + 1
                 /\ pc' = pc
            ELSE /\ idx' = 1
                 /\ pc' = "glue_delete_database"
    /\ UNCHANGED <<costVars, inputVars, out, raised, buckets_to_delete, log_groups_to_delete, listing,
                   cleanup_summary, deployVars>>

glue_tables_done ==
    /\ tool = "cleanup" /\ pc = "glue_table"
    /\ idx > Len(listing)
    /\ pc' = "glue_delete_database"
    /\ idx' = 1
    /\ UNCHANGED <<costVars, inputVars, calls, out, raised, buckets_to_delete, log_groups_to_delete,
                   listing, cleanup_summary, deployVars>>

\* delete_database and its handlers (lines 277-282); cleanup() goes on to Phase 4
glue_delete_database ==
    /\ tool = "cleanup" /\ pc = "glue_delete_database"
    /\ \E e \in {OK, EntityNotFound, AccessDenied} :
         /\ May(e)
         /\ e = EntityNotFound <=> db_name(environment) \notin Range(account.databases)
         /\ calls' = Append(calls, Call("delete_database", db_name(environment), e))
         /\ out' = out \o (IF ~Failed(e) THEN <<>>
                           ELSE IF e.exc = "EntityNotFoundException"
                           THEN <<"  Database not found: " \o db_name(environment)>>
                           ELSE <<"Could not delete database: " \o e.msg>>)
                       \o <<"PHASE 4: Delete CloudFormation Stacks">>
    /\ pc' = "delete_stacks"
    /\ idx' = 1
    /\ listing' = "unset"
    /\ UNCHANGED <<costVars, inputVars, raised, buckets_to_delete, log_groups_to_delete,
                   cleanup_summary, deployVars>>

\* WaiterConfig={'Delay': 30, 'MaxAttempts': 60}
WaiterDelay == 30
WaiterMaxAttempts == 60

\* error_msg of line 317
StackErrorMsg(stack_name, e) == "Could not delete stack " \o stack_name \o ": " \o e.msg

\* one iteration of the loop of _delete_stacks (lines 287-319), given how
\* describe_stacks (d), delete_stack (x) and the wait (w) end: the calls
\* issued, the summary, the lines printed
\* a stack step that issues delete_stack a second time when the first fails
StackStepCalls_Retries(dry, stack_name, d, x, w) ==
    IF dry THEN <<>>
    ELSE <<Call("describe_stacks", stack_name, d)>>
         \o (IF Failed(d) THEN <<>>
             ELSE <<Call("delete_stack", stack_name, x)>>
                  \o (IF Failed(x) THEN <<Call("delete_stack", stack_name, x)>>
                      ELSE <<CallP("wait:stack_delete_complete", stack_name,
                                   [Delay |-> WaiterDelay, MaxAttempts |-> WaiterMaxAttempts],
                                   w)>>))

\* a stack step that starts the deletion and does not wait for it
StackStepCalls_NoWait(dry, stack_name, d, x, w) ==
    IF dry THEN <<>>
    ELSE <<Call("describe_stacks", stack_name, d)>>
         \o (IF Failed(d) THEN <<>> ELSE <<Call("delete_stack", stack_name, x)>>)

\* a stack step that issues delete_stack whether or not the stack was found
StackStepCalls_DeletesAbsent(dry, stack_name, d, x, w) ==
    IF dry THEN <<>>
    ELSE <<Call("describe_stacks", stack_name, d), Call("delete_stack", stack_name, x)>>
         \o (IF Failed(d) \/ Failed(x) THEN <<>>
             ELSE <<CallP("wait:stack_delete_complete", stack_name,
                          [Delay |-> WaiterDelay, MaxAttempts |-> WaiterMaxAttempts],
                          w)>>)

StackStepCalls(dry, stack_name, d, x, w) ==
    IF dry THEN <<>>
    ELSE <<Call("describe_stacks", stack_name, d)>>
         \o (IF Failed(d) THEN <<>>
             ELSE <<Call("delete_stack", stack_name, x)>>
                  \o (IF Failed(x) THEN <<>>
                      ELSE <<CallP("wait:stack_delete_complete", stack_name,
                                   [Delay |-> WaiterDelay, MaxAttempts |-> WaiterMaxAttempts],
                                   w)>>))

\* a stack step that records a failed describe as an error whatever its class
StackStepSummary_AbsentIsError(dry, summary, stack_name, d, x, w) ==
    IF dry THEN summary
    ELSE IF Failed(d)
    THEN [summary EXCEPT !.errors = Append(@, StackErrorMsg(stack_name, d))]
    ELSE IF Failed(x)
    THEN [summary EXCEPT !.errors = Append(@, StackErrorMsg(stack_name, x))]
    ELSE IF Failed(w)
    THEN [summary EXCEPT !.errors = Append(@, StackErrorMsg(stack_name, w))]
    ELSE [summary EXCEPT !.stacks_deleted = Append(@, stack_name)]

\* a stack step that lists the stack as deleted once delete_stack was accepted,
\* whatever the wait says
StackStepSummary_ListsBeforeWait(dry, summary, stack_name, d, x, w) ==
    IF dry THEN summary
    ELSE IF Failed(d)
    THEN IF IsClientError(d)
         THEN summary
         ELSE [summary EXCEPT !.errors = Append(@, StackErrorMsg(stack_name, d))]
    ELSE IF Failed(x)
    THEN [summary EXCEPT !.errors = Append(@, StackErrorMsg(stack_name, x))]
    ELSE IF Failed(w)
    THEN [summary EXCEPT !.stacks_deleted = Append(@, stack_name),
                         !.errors = Append(@, StackErrorMsg(stack_name, w))]
    ELSE [summary EXCEPT !.stacks_deleted = Append(@, stack_name)]

StackStepSummary(dry, summary, stack_name, d, x, w) ==
    IF dry THEN summary
    ELSE IF Failed(d)
    THEN IF IsClientError(d)
         THEN summary                                   \* "Stack not found", continue
         ELSE [summary EXCEPT !.errors = Append(@, StackErrorMsg(stack_name, d))]
    ELSE IF Failed(x)
    THEN [summary EXCEPT !.errors = Append(@, StackErrorMsg(stack_name, x))]
    ELSE IF Failed(w)
    THEN [summary EXCEPT !.errors = Append(@, StackErrorMsg(stack_name, w))]
    ELSE [summary EXCEPT !.stacks_deleted = Append(@, stack_name)]

StackStepOut(dry, stack_name, d, x, w) ==
    IF dry THEN <<"  [DRY RUN] Would delete stack: " \o stack_name>>
    ELSE IF Failed(d)
    THEN IF IsClientError(d)
         THEN <<"  Stack not found: " \o stack_name>>
         ELSE <<"  " \o StackErrorMsg(stack_name, d)>>
    ELSE IF Failed(x) THEN <<"  " \o StackErrorMsg(stack_name, x)>>
    ELSE IF Failed(w) THEN <<"  " \o StackErrorMsg(stack_name, w)>>
    ELSE <<>>

NumFaults(es) == Cardinality({i \in DOMAIN es : es[i] \in FaultOutcomes})

\* _delete_stacks: one stack of the loop (lines 287-319)
delete_stack ==
    /\ tool = "cleanup" /\ pc = "delete_stacks"
    /\ idx <= Len(stack_names(environment))
    /\ LET stack_name == stack_names(environment)[idx]
       IN \E d \in {OK, StackAbsent, ConnectionError},
             x \in {OK, AccessDenied},
             w \in {OK, WaiterFailed, WaiterTimeout} :
          /\ d = StackAbsent <=> (~dry_run /\ stack_name \notin Range(account.stacks))
          \* outcomes of calls that are not made are not choices
          /\ dry_run => d = OK
          /\ (dry_run \/ Failed(d)) => x = OK
          /\ (dry_run \/ Failed(d) \/ Failed(x)) => w = OK
          /\ Faults + NumFaults(<<d, x, w>>) <= MaxFaults
          /\ calls' = calls \o StackStepCalls(dry_run, stack_name, d, x, w)
          /\ cleanup_summary' =
                StackStepSummary(dry_run, cleanup_summary, stack_name, d, x, w)
          /\ out' = out \o StackStepOut(dry_run, stack_name, d, x, w)
    /\ idx' = idx + 1
    /\ UNCHANGED <<costVars, inputVars, pc, raised, buckets_to_delete, log_groups_to_delete, listing,
                   deployVars>>

\* end of the loop of _delete_stacks; cleanup() goes on to Phase 5 (lines 133-135)
delete_stacks_done ==
    /\ tool = "cleanup" /\ pc = "delete_stacks"
    /\ idx > Len(stack_names(environment))
    /\ out' = Append(out, "PHASE 5: Cleanup Orphaned Resources")
    /\ pc' = "orphan_log_groups"
    /\ idx' = 1
    /\ UNCHANGED <<costVars, inputVars, calls, raised, buckets_to_delete, log_groups_to_delete,
                   listing, cleanup_summary, deployVars>>

\* _cleanup_orphaned_resources: one log group of the loop (lines 326-335)
delete_log_group ==
    /\ tool = "cleanup" /\ pc = "orphan_log_groups"
    /\ idx <= Len(log_groups_to_delete)
    /\ LET log_group == log_groups_to_delete[idx]
       IN IF dry_run
          THEN /\ out' = Append(out, "  [DRY RUN] Would delete log group: " \o log_group)
               /\ UNCHANGED <<calls, cleanup_summary>>
          ELSE \E e \in {OK, AccessDenied} :
               /\ May(e)
               /\ calls' = Append(calls, Call("delete_log_group", log_group, e))
               /\ IF ~Failed(e)
                  THEN /\ cleanup_summary' =
                            [cleanup_summary EXCEPT !.log_groups_deleted = Append(@, log_group)]
                       /\ out' = out
                  ELSE /\ cleanup_summary' = cleanup_summary
                       /\ out' = Append(out, "  Could not delete log group " \o log_group
                                                \o ": " \o e.msg)
    /\ idx' = idx + 1
    /\ UNCHANGED <<costVars, inputVars, pc, raised, buckets_to_delete, log_groups_to_delete, listing,
                   deployVars>>

delete_log_groups_done ==
    /\ tool = "cleanup" /\ pc = "orphan_log_groups"
    /\ idx > Len(log_groups_to_delete)
    /\ pc' = "orphan_buckets"
    /\ idx' = 1
    /\ UNCHANGED <<costVars, inputVars, calls, out, raised, buckets_to_delete, log_groups_to_delete,
                   listing, cleanup_summary, deployVars>>

\* _cleanup_orphaned_resources: one bucket of the loop (lines 339-349)
delete_bucket ==
    /\ tool = "cleanup" /\ pc = "orphan_buckets"
    /\ idx <= Len(buckets_to_delete)
    /\ LET bucket_name == buckets_to_delete[idx]
       IN IF dry_run
          THEN /\ out' = Append(out, "  [DRY RUN] Would delete bucket: " \o bucket_name)
               /\ calls' = calls
          ELSE \E e \in {OK, NoSuchBucket, BucketNotEmpty} :
               /\ May(e)
               /\ calls' = Append(calls, Call("delete_bucket", bucket_name, e))
               /\ out' = out \o (IF ~Failed(e) THEN <<>>
                                 ELSE IF e.exc = "NoSuchBucket"
                                 THEN <<"  Bucket already deleted: " \o bucket_name>>
                                 ELSE <<"  Could not delete bucket " \o bucket_name
                                          \o ": " \o e.msg>>)
    /\ idx' = idx + 1
    /\ UNCHANGED <<costVars, inputVars, pc, raised, buckets_to_delete, log_groups_to_delete, listing,
                   cleanup_summary, deployVars>>

\* end of Phase 5 and _print_summary (lines 137-139, 351-377)
print_summary ==
    /\ tool = "cleanup" /\ pc = "orphan_buckets"
    /\ idx > Len(buckets_to_delete)
    /\ out' = out \o << "CLEANUP SUMMARY",
                        IF dry_run
                        THEN "This was a DRY RUN - no resources were actually deleted"
                        ELSE "Cleanup complete!" >>
    /\ pc' = "done"
    /\ UNCHANGED <<costVars, inputVars, calls, raised, idx, buckets_to_delete, log_groups_to_delete,
                   listing, cleanup_summary, deployVars>>

\* ResourceCleaner.__init__ (lines 60-90) and the arguments of main()
InitCleanup ==
    /\ tool = "cleanup"
    /\ pc = "start"
    /\ environment \in Environments
    /\ dry_run \in BOOLEAN
    /\ force \in BOOLEAN
    /\ confirm = "unset"
    /\ account \in Accounts
    /\ project = [scripts |-> <<>>, templates |-> <<>>, stale_build |-> FALSE]
    /\ calls = <<Call("get_caller_identity", "", OK)>>
    /\ out = <<>>
    /\ raised = FALSE
    /\ idx = 1
    /\ buckets_to_delete = "unset"
    /\ log_groups_to_delete = "unset"
    /\ listing = "unset"
    /\ cleanup_summary = NewSummary
    /\ skip_confirmation = FALSE
    /\ build_dir = <<>>
    /\ main_success = "unset"
    /\ main_outputs = "unset"
    /\ appflow_success = "unset"
    /\ NoEstimator

NextCleanup ==
    \/ cleanup_confirm
    \/ discover_buckets
    \/ discover_log_groups
    \/ discover_stack
    \/ empty_bucket
    \/ empty_buckets_done
    \/ glue_get_jobs
    \/ glue_delete_job
    \/ glue_jobs_done
    \/ glue_get_crawlers
    \/ glue_delete_crawler
    \/ glue_crawlers_done
    \/ glue_get_tables
    \/ glue_delete_table
    \/ glue_tables_done
    \/ glue_delete_database
    \/ delete_stack
    \/ delete_stacks_done
    \/ delete_log_group
    \/ delete_log_groups_done
    \/ delete_bucket
    \/ print_summary

SpecCleanup == InitCleanup /\ [][NextCleanup]_vars

(***************************************************************************)
(* deploy.py: more Python str operations                                   *)
(***************************************************************************)
\* str.replace(old, new): every non-overlapping occurrence, left to right
RECURSIVE Replace(_, _, _)
Replace(s, old, new) ==
    IF Len(s) < Len(old) THEN s
    ELSE IF SubSeq(s, 1, Len(old)) = old
    THEN new \o Replace(SubSeq(s, Len(old) + 1, Len(s)), old, new)
    ELSE SubSeq(s, 1, 1) \o Replace(SubSeq(s, 2, Len(s)), old, new)

\* s.split('/')[-1] if '/' in s else s
LastSegment(s) ==
    IF ~Contains(s, "/") THEN s
    ELSE LET i == CHOOSE j \in 1..Len(s) :
                     /\ SubSeq(s, j, j) = "/"
                     /\ ~Contains(SubSeq(s, j + 1, Len(s)), "/")
         IN SubSeq(s, i + 1, Len(s))

\* dict.get(key, default)
Get(m, key, default) == IF key \in DOMAIN m THEN m[key] ELSE default

(***************************************************************************)
(* deploy.py: DeploymentConfig and the local checkout                      *)
(***************************************************************************)
account_id == "123456789012"
region == "us-east-1"
main_stack_name(env) == project_name \o "-" \o env \o "-main"
appflow_stack_name(env) == project_name \o "-" \o env \o "-appflow"
artifact_bucket(env) == project_name \o "-" \o env \o "-artifacts-" \o account_id

main_template == "main-infrastructure.yaml"
appflow_template == "appflow-data-ingestion.yaml"
lambda_zip == "rag-query-handler.zip"
\* datetime.utcnow().strftime('%Y%m%d-%H%M%S')
timestamp == "20240101-000000"

ScriptNames == << "etl_job.py", "embedding_job.py", "quality_checks.py", "export_job.py" >>
TemplateNames == << main_template, appflow_template >>

\* Project(j): a checkout with the first j Glue scripts and the first j templates
Project(j) == [scripts |-> Prefix(ScriptNames, j),
               templates |-> Prefix(TemplateNames, j),
               stale_build |-> j % 2 = 1]

Projects == {Project(j) : j \in 0..MaxHeld}

\* the Outputs the provider may report for the main stack
FullOutputs(env) ==
    [RawDataBucketName |-> project_name \o "-" \o env \o "-raw-data",
     KMSKeyArn |-> "arn:aws:kms:" \o region \o ":" \o account_id \o ":key/1",
     ProcessedDataBucketName |-> project_name \o "-" \o env \o "-processed-data"]
PartialOutputs(env) == [RawDataBucketName |-> project_name \o "-" \o env \o "-raw-data"]
\* an output whose value is the empty string
BlankOutputs(env) == [FullOutputs(env) EXCEPT !.ProcessedDataBucketName = ""]
OutputChoices(env) == {FullOutputs(env), PartialOutputs(env), BlankOutputs(env), EmptyMap}

(***************************************************************************)
(* deploy.py: HousingMarketDeployer.deploy                                 *)
(***************************************************************************)
DeployAnswers == {"y", "Y", "n", "", "yes"}

\* a gate that accepts every answer beginning with 'y'
DeployCancelled_AcceptsPrefix(answer) == ~StartsWith(Lower(answer), "y")

\* `confirm.lower() != 'y'` (line 324)
DeployCancelled(answer) == Lower(answer) # "y"

\* the confirmation gate of deploy(): lines 322-326
deploy_confirm ==
    /\ tool = "deploy" /\ pc = "start"
    /\ IF ~skip_confirmation
       THEN \E answer \in DeployAnswers :
            /\ confirm' = answer
            /\ IF DeployCancelled(answer)
               THEN /\ out' = Append(out, "Deployment cancelled")
                    /\ pc' = "done"
               ELSE /\ out' = Append(out, "PHASE 1: Building Artifacts")
                    /\ pc' = "clean_build"
       ELSE /\ confirm' = confirm
            /\ out' = Append(out, "PHASE 1: Building Artifacts")
            /\ pc' = "clean_build"
    /\ UNCHANGED <<costVars, argVars, calls, raised, idx, buckets_to_delete, log_groups_to_delete,
                   listing, cleanup_summary, build_dir, main_success, main_outputs,
                   appflow_success>>

\* a handler that prints the error and does not re-raise it
DeployFailed_Swallows(e) ==
    /\ out' = Append(out, "Deployment failed: " \o e.msg)
    /\ raised' = raised
    /\ pc' = "done"

\* the handler of deploy(): print the error and re-raise (lines 403-405)
DeployFailed(e) ==
    /\ out' = Append(out, "Deployment failed: " \o e.msg)
    /\ raised' = TRUE
    /\ pc' = "done"

deployLocals == <<main_success, main_outputs, appflow_success>>

\* ArtifactBuilder.clean_build (lines 149-154)
clean_build ==
    /\ tool = "deploy" /\ pc = "clean_build"
    /\ calls' = IF build_dir # <<>> THEN Append(calls, Call("rmtree", "build", OK)) ELSE calls
    /\ build_dir' = <<>>
    /\ pc' = "build_lambda"
    /\ UNCHANGED <<costVars, inputVars, out, raised, idx, cleanupVars, deployLocals>>

\* ArtifactBuilder.build_lambda_package (lines 96-130): pip install with
\* check=True, copy of the source file, zip
build_lambda_package ==
    /\ tool = "deploy" /\ pc = "build_lambda"
    /\ \E e \in {OK, PipFailed} :
         /\ May(e)
         /\ calls' = Append(calls, Call("pip install", "build/lambda/rag-query-handler", e))
         /\ IF Failed(e)
            THEN /\ DeployFailed(e)
                 /\ build_dir' = build_dir
            ELSE /\ build_dir' = build_dir \o << "lambda/rag-query-handler/rag_query_handler.py",
                                                 lambda_zip >>
                 /\ pc' = "build_glue"
                 /\ UNCHANGED <<out, raised>>
    /\ UNCHANGED <<costVars, inputVars, idx, cleanupVars, deployLocals>>

\* ArtifactBuilder.build_glue_scripts (lines 132-147); deploy() goes on to Phase 2
build_glue_scripts ==
    /\ tool = "deploy" /\ pc = "build_glue"
    /\ build_dir' = build_dir \o [i \in 1..Len(project.scripts) |-> "glue/" \o project.scripts[i]]
    /\ out' = Append(out, "PHASE 2: Uploading Artifacts to S3")
    /\ pc' = "create_artifact_bucket"
    /\ UNCHANGED <<costVars, inputVars, calls, raised, idx, cleanupVars, deployLocals>>

\* S3Manager.create_artifact_bucket (lines 164-182): every failure is handled
create_artifact_bucket ==
    /\ tool = "deploy" /\ pc = "create_artifact_bucket"
    /\ \E e \in {OK, BucketAlreadyOwnedByYou, AccessDenied} :
         /\ May(e)
         /\ calls' = Append(calls,
                CallP("create_bucket", artifact_bucket(environment),
                      IF region = "us-east-1" THEN EmptyMap
                      ELSE [LocationConstraint |-> region], e))
         /\ out' = out \o (IF ~Failed(e) THEN <<>>
                           ELSE IF e.exc = "BucketAlreadyOwnedByYou"
                           THEN <<"Artifact bucket already exists: "
                                    \o artifact_bucket(environment)>>
                           ELSE <<"Could not create bucket: " \o e.msg>>)
    /\ pc' = "upload_lambda"
    /\ UNCHANGED <<costVars, inputVars, raised, idx, cleanupVars, build_dir, deployLocals>>

\* S3Manager.upload_artifact (lines 184-196) of one file; a failure of
\* upload_file is not handled there
UploadArtifact(s3_key, e) ==
    CallP("upload_file", artifact_bucket(environment), [Key |-> s3_key], e)

\* deploy(), lines 344-349
upload_lambda ==
    /\ tool = "deploy" /\ pc = "upload_lambda"
    /\ \E e \in {OK, UploadFailed} :
         /\ May(e)
         /\ calls' = Append(calls,
                UploadArtifact("lambda/rag_query_handler-" \o timestamp \o ".zip", e))
         /\ IF Failed(e)
            THEN DeployFailed(e) /\ idx' = idx
            ELSE pc' = "upload_glue" /\ idx' = 1 /\ UNCHANGED <<out, raised>>
    /\ UNCHANGED <<costVars, inputVars, cleanupVars, build_dir, deployLocals>>

\* the files of build/glue, as names relative to it
GlueFiles(files) ==
    LET glue == SelectSeqBy(files, {f \in Range(files) : StartsWith(f, "glue/")})
    IN [i \in 1..Len(glue) |-> SubSeq(glue[i], Len("glue/") + 1, Len(glue[i]))]

\* S3Manager.upload_directory (lines 198-203): one file of the loop
upload_glue_file ==
    /\ tool = "deploy" /\ pc = "upload_glue"
    /\ idx <= Len(GlueFiles(build_dir))
    /\ \E e \in {OK, UploadFailed} :
         /\ May(e)
         /\ calls' = Append(calls, UploadArtifact("glue/scripts/" \o GlueFiles(build_dir)[idx], e))
         /\ IF Failed(e)
            THEN DeployFailed(e) /\ idx' = idx
            ELSE idx' = idx + 1 /\ UNCHANGED <<pc, out, raised>>
    /\ UNCHANGED <<costVars, inputVars, cleanupVars, build_dir, deployLocals>>

upload_glue_done ==
    /\ tool = "deploy" /\ pc = "upload_glue"
    /\ idx > Len(GlueFiles(build_dir))
    /\ pc' = "upload_templates"
    /\ idx' = 1
    /\ UNCHANGED <<costVars, inputVars, calls, out, raised, cleanupVars, build_dir, deployLocals>>

\* deploy(), lines 354-358: one template of the loop
upload_template ==
    /\ tool = "deploy" /\ pc = "upload_templates"
    /\ idx <= Len(project.templates)
    /\ \E e \in {OK, UploadFailed} :
         /\ May(e)
         /\ calls' = Append(calls, UploadArtifact("cloudformation/" \o project.templates[idx], e))
         /\ IF Failed(e)
            THEN DeployFailed(e) /\ idx' = idx
            ELSE idx' = idx + 1 /\ UNCHANGED <<pc, out, raised>>
    /\ UNCHANGED <<costVars, inputVars, cleanupVars, build_dir, deployLocals>>

\* a template loop that is left after the first template
upload_templates_done_AfterFirst ==
    /\ tool = "deploy" /\ pc = "upload_templates"
    /\ idx > Min(1, Len(project.templates))
    /\ out' = Append(out, "PHASE 3: Deploying Main Infrastructure")
    /\ pc' = "deploy_main"
    /\ idx' = 1
    /\ UNCHANGED <<costVars, inputVars, calls, raised, cleanupVars, build_dir, deployLocals>>

\* end of Phase 2; deploy() goes on to Phase 3 (lines 360-361)
upload_templates_done ==
    /\ tool = "deploy" /\ pc = "upload_templates"
    /\ idx > Len(project.templates)
    /\ out' = Append(out, "PHASE 3: Deploying Main Infrastructure")
    /\ pc' = "deploy_main"
    /\ idx' = 1
    /\ UNCHANGED <<costVars, inputVars, calls, raised, cleanupVars, build_dir, deployLocals>>

(***************************************************************************)
(* deploy.py: CloudFormationDeployer                                       *)
(***************************************************************************)
NoUpdatesText == "No updates are to be performed"

\* a handler that reports every ClientError as a failure
ClientErrorResult_AlwaysFalse(e) == FALSE

\* a handler that reports every ClientError as "no updates"
ClientErrorResult_AlwaysTrue(e) == TRUE

\* the handler of deploy_stack (lines 276-283): the value returned for a
\* ClientError e
ClientErrorResult(e) == Contains(e.msg, NoUpdatesText)

\* `except self.cfn.exceptions.ClientError` (lines 241, 276): what it catches
Caught(e) == IsClientError(e)

\* a deploy_stack that updates when the describe fails and creates when it succeeds
DeployStackCalls_Swapped(stack_name, parameters, d, x, w) ==
    <<Call("describe_stacks", stack_name, d)>>
    \o (IF Failed(d) /\ ~Caught(d) THEN <<>>
        ELSE <<CallP(IF Failed(d) THEN "update_stack" ELSE "create_stack",
                     stack_name, parameters, x)>>
             \o (IF Failed(x) THEN <<>>
                 ELSE <<CallP(IF Failed(d) THEN "wait:stack_update_complete"
                                           ELSE "wait:stack_create_complete",
                              stack_name,
                              [Delay |-> WaiterDelay, MaxAttempts |-> WaiterMaxAttempts],
                              w)>>))

\* deploy_stack (lines 236-283), given how describe_stacks (d), the
\* create/update call (x) and the wait (w) end: the calls it issues
DeployStackCalls(stack_name, parameters, d, x, w) ==
    <<Call("describe_stacks", stack_name, d)>>
    \o (IF Failed(d) /\ ~Caught(d) THEN <<>>
        ELSE <<CallP(IF Failed(d) THEN "create_stack" ELSE "update_stack",
                     stack_name, parameters, x)>>
             \o (IF Failed(x) THEN <<>>
                 ELSE <<CallP(IF Failed(d) THEN "wait:stack_create_complete"
                                           ELSE "wait:stack_update_complete",
                              stack_name,
                              [Delay |-> WaiterDelay, MaxAttempts |-> WaiterMaxAttempts],
                              w)>>))

\* the first exception raised inside the outer try of deploy_stack, OK if none
DeployStackException(d, x, w) ==
    IF Failed(d) /\ ~Caught(d) THEN d
    ELSE IF Failed(x) THEN x
    ELSE IF Failed(w) THEN w
    ELSE OK

\* how deploy_stack ends: it returns True or False, or an exception escapes it
DeployStackEnd(d, x, w) ==
    LET e == DeployStackException(d, x, w)
    IN IF ~Failed(e) THEN [kind |-> "return", value |-> TRUE, e |-> e]
       ELSE IF Caught(e) THEN [kind |-> "return", value |-> ClientErrorResult(e), e |-> e]
       ELSE [kind |-> "raise", value |-> FALSE, e |-> e]

DeployStackOut(stack_name, d, x, w) ==
    LET end == DeployStackEnd(d, x, w)
    IN IF end.kind = "return" /\ Failed(end.e)
       THEN IF end.value
            THEN <<"No updates needed for stack: " \o stack_name>>
            ELSE <<"Stack deployment failed: " \o end.e.msg>>
       ELSE <<>>

\* the outcomes the provider can produce for one deploy_stack
DeployStackOutcomes(stack_name, d, x, w) ==
    /\ d \in {OK, StackAbsent, ConnectionError}
    /\ x \in {OK, NoUpdates, AccessDenied}
    /\ w \in {OK, WaiterFailed, WaiterTimeout}
    /\ d = StackAbsent <=> stack_name \notin Range(account.stacks)
    \* UpdateStack alone reports "No updates"
    /\ x = NoUpdates => ~Failed(d)
    \* outcomes of calls that are not made are not choices
    /\ (Failed(d) /\ ~Caught(d)) => x = OK
    /\ (Failed(d) /\ ~Caught(d)) \/ Failed(x) => w = OK
    /\ Faults + NumFaults(<<d, x, w>>) <= MaxFaults

\* deploy() that goes on to the outputs after a failed base step
deploy_main_ContinuesOnFailure ==
    /\ tool = "deploy" /\ pc = "deploy_main"
    /\ LET stack_name == main_stack_name(environment)
           parameters == [Environment |-> environment, ProjectName |-> project_name]
       IN IF main_template \notin Range(project.templates)
          THEN \* open(template_path) raises before the try of deploy_stack
               /\ DeployFailed(FileNotFound)
               /\ UNCHANGED <<calls, main_success>>
          ELSE \E d, x, w \in {OK, StackAbsent, ConnectionError, NoUpdates, AccessDenied,
                               WaiterFailed, WaiterTimeout} :
               /\ DeployStackOutcomes(stack_name, d, x, w)
               /\ calls' = calls \o DeployStackCalls(stack_name, parameters, d, x, w)
               /\ LET end == DeployStackEnd(d, x, w)
                  IN IF end.kind = "raise"
                     THEN /\ DeployFailed(end.e)
                          /\ main_success' = main_success
                     ELSE /\ main_success' = end.value
                          /\ raised' = raised
                          /\ IF end.value
                             THEN /\ out' = out \o DeployStackOut(stack_name, d, x, w)
                                  /\ pc' = "get_stack_outputs"
                             ELSE /\ out' = out \o DeployStackOut(stack_name, d, x, w)
                                               \o <<"Main infrastructure deployment failed">>
                                  /\ pc' = "get_stack_outputs"
    /\ UNCHANGED <<costVars, inputVars, idx, cleanupVars, build_dir, main_outputs, appflow_success>>

\* Phase 3 of deploy() (lines 363-374)
deploy_main ==
    /\ tool = "deploy" /\ pc = "deploy_main"
    /\ LET stack_name == main_stack_name(environment)
           parameters == [Environment |-> environment, ProjectName |-> project_name]
       IN IF main_template \notin Range(project.templates)
          THEN \* open(template_path) raises before the try of deploy_stack
               /\ DeployFailed(FileNotFound)
               /\ UNCHANGED <<calls, main_success>>
          ELSE \E d, x, w \in {OK, StackAbsent, ConnectionError, NoUpdates, AccessDenied,
                               WaiterFailed, WaiterTimeout} :
               /\ DeployStackOutcomes(stack_name, d, x, w)
               /\ calls' = calls \o DeployStackCalls(stack_name, parameters, d, x, w)
               /\ LET end == DeployStackEnd(d, x, w)
                  IN IF end.kind = "raise"
                     THEN /\ DeployFailed(end.e)
                          /\ main_success' = main_success
                     ELSE /\ main_success' = end.value
                          /\ raised' = raised
                          /\ IF end.value
                             THEN /\ out' = out \o DeployStackOut(stack_name, d, x, w)
                                  /\ pc' = "get_stack_outputs"
                             ELSE /\ out' = out \o DeployStackOut(stack_name, d, x, w)
                                               \o <<"Main infrastructure deployment failed">>
                                  /\ pc' = "done"
    /\ UNCHANGED <<costVars, inputVars, idx, cleanupVars, build_dir, main_outputs, appflow_success>>

\* get_stack_outputs (lines 285-293), called at line 377; deploy() goes on to Phase 4
get_stack_outputs ==
    /\ tool = "deploy" /\ pc = "get_stack_outputs"
    /\ \/ \E outputs \in OutputChoices(environment) :
            /\ calls' = Append(calls, Call("describe_stacks", main_stack_name(environment), OK))
            /\ main_outputs' = outputs
            /\ out' = Append(out, "PHASE 4: Deploying AppFlow Data Ingestion")
       \/ \E e \in {AccessDenied} :
            /\ May(e)
            /\ calls' = Append(calls, Call("describe_stacks", main_stack_name(environment), e))
            /\ main_outputs' = EmptyMap
            /\ out' = out \o << "Could not get stack outputs: " \o e.msg,
                                "PHASE 4: Deploying AppFlow Data Ingestion" >>
    /\ pc' = "deploy_appflow"
    /\ UNCHANGED <<costVars, inputVars, raised, idx, cleanupVars, build_dir, main_success,
                   appflow_success>>

\* parameters that take the bucket name from the wrong output
AppflowParameters_WrongOutput(env, outputs) ==
    [Environment |-> env,
     ProjectName |-> project_name,
     RawDataBucketName |-> Get(outputs, "ProcessedDataBucketName", ""),
     KMSKeyArn |-> Get(outputs, "KMSKeyArn", "")]

\* the parameters of the appflow stack (lines 385-390)
AppflowParameters(env, outputs) ==
    [Environment |-> env,
     ProjectName |-> project_name,
     RawDataBucketName |-> Get(outputs, "RawDataBucketName", ""),
     KMSKeyArn |-> Get(outputs, "KMSKeyArn", "")]

\* deploy() that returns after a failed appflow step, as it does after a failed base step
deploy_appflow_ReturnsOnFailure ==
    /\ tool = "deploy" /\ pc = "deploy_appflow"
    /\ LET stack_name == appflow_stack_name(environment)
           parameters == AppflowParameters(environment, main_outputs)
       IN IF appflow_template \notin Range(project.templates)
          THEN /\ DeployFailed(FileNotFound)
               /\ UNCHANGED <<calls, appflow_success, idx>>
          ELSE \E d, x, w \in {OK, StackAbsent, ConnectionError, NoUpdates, AccessDenied,
                               WaiterFailed, WaiterTimeout} :
               /\ DeployStackOutcomes(stack_name, d, x, w)
               /\ calls' = calls \o DeployStackCalls(stack_name, parameters, d, x, w)
               /\ LET end == DeployStackEnd(d, x, w)
                  IN IF end.kind = "raise"
                     THEN /\ DeployFailed(end.e)
                          /\ UNCHANGED <<appflow_success, idx>>
                     ELSE /\ appflow_success' = end.value
                          /\ raised' = raised
                          /\ idx' = 1
                          /\ IF end.value
                             THEN /\ out' = out \o DeployStackOut(stack_name, d, x, w)
                                               \o <<"PHASE 5: Post-Deployment Configuration">>
                                  /\ pc' = "upload_glue_scripts"
                             ELSE /\ out' = out \o DeployStackOut(stack_name, d, x, w)
                                  /\ pc' = "done"
    /\ UNCHANGED <<costVars, inputVars, cleanupVars, build_dir, main_success, main_outputs>>

\* Phase 4 of deploy() (lines 382-391); deploy() goes on to Phase 5
deploy_appflow ==
    /\ tool = "deploy" /\ pc = "deploy_appflow"
    /\ LET stack_name == appflow_stack_name(environment)
           parameters == AppflowParameters(environment, main_outputs)
       IN IF appflow_template \notin Range(project.templates)
          THEN /\ DeployFailed(FileNotFound)
               /\ UNCHANGED <<calls, appflow_success, idx>>
          ELSE \E d, x, w \in {OK, StackAbsent, ConnectionError, NoUpdates, AccessDenied,
                               WaiterFailed, WaiterTimeout} :
               /\ DeployStackOutcomes(stack_name, d, x, w)
               /\ calls' = calls \o DeployStackCalls(stack_name, parameters, d, x, w)
               /\ LET end == DeployStackEnd(d, x, w)
                  IN IF end.kind = "raise"
                     THEN /\ DeployFailed(end.e)
                          /\ UNCHANGED <<appflow_success, idx>>
                     ELSE /\ appflow_success' = end.value
                          /\ raised' = raised
                          /\ out' = out \o DeployStackOut(stack_name, d, x, w)
                                        \o <<"PHASE 5: Post-Deployment Configuration">>
                          /\ pc' = "upload_glue_scripts"
                          /\ idx' = 1
    /\ UNCHANGED <<costVars, inputVars, cleanupVars, build_dir, main_success, main_outputs>>

\* a scripts bucket named after the raw-data bucket
scripts_bucket_FromRawBucket(outputs) ==
    Replace(Get(outputs, "RawDataBucketName", ""), "raw", "glue-scripts")

\* scripts_bucket of lines 409 and 423
scripts_bucket(outputs) ==
    Replace(Get(outputs, "ProcessedDataBucketName", ""), "processed", "glue-scripts")

\* the *.py files of build/glue that the loop of line 413 uploads
BuiltScripts(files) ==
    IF scripts_bucket(main_outputs) = "" THEN <<>> ELSE GlueFiles(files)

\* _upload_glue_scripts_to_bucket (lines 407-419): one script of the loop
upload_glue_script ==
    /\ tool = "deploy" /\ pc = "upload_glue_scripts"
    /\ idx <= Len(BuiltScripts(build_dir))
    /\ \E e \in {OK, UploadFailed} :
         /\ May(e)
         /\ calls' = Append(calls,
                CallP("upload_file", LastSegment(scripts_bucket(main_outputs)),
                      [Key |-> "scripts/" \o BuiltScripts(build_dir)[idx]], e))
         /\ IF Failed(e)
            THEN DeployFailed(e) /\ idx' = idx
            ELSE idx' = idx + 1 /\ UNCHANGED <<pc, out, raised>>
    /\ UNCHANGED <<costVars, inputVars, cleanupVars, build_dir, deployLocals>>

upload_glue_scripts_done ==
    /\ tool = "deploy" /\ pc = "upload_glue_scripts"
    /\ idx > Len(BuiltScripts(build_dir))
    /\ pc' = "upload_lambda_code"
    /\ UNCHANGED <<costVars, inputVars, calls, out, raised, idx, cleanupVars, build_dir, deployLocals>>

\* the lines of _print_summary (lines 433-446) the claims are about
SummaryLines(outputs) ==
    <<"DEPLOYMENT COMPLETE", "Deployment Outputs:">>
    \o SelectSeqBy(<<"RawDataBucketName", "KMSKeyArn", "ProcessedDataBucketName">>,
                   DOMAIN outputs)

\* _upload_lambda_code_to_bucket (lines 421-431) and the summary (lines 399-401)
upload_lambda_code ==
    /\ tool = "deploy" /\ pc = "upload_lambda_code"
    /\ IF scripts_bucket(main_outputs) = ""
       THEN /\ out' = out \o SummaryLines(main_outputs)
            /\ pc' = "done"
            /\ UNCHANGED <<calls, raised>>
       ELSE \E e \in {OK, UploadFailed} :
            /\ May(e)
            /\ calls' = Append(calls,
                   CallP("upload_file", LastSegment(scripts_bucket(main_outputs)),
                         [Key |-> "lambda/rag_query_handler.zip"], e))
            /\ IF Failed(e)
               THEN DeployFailed(e)
               ELSE /\ out' = out \o SummaryLines(main_outputs)
                    /\ pc' = "done"
                    /\ raised' = raised
    /\ UNCHANGED <<costVars, inputVars, idx, cleanupVars, build_dir, deployLocals>>

\* HousingMarketDeployer.__init__ (lines 307-311) and the arguments of main()
InitDeploy ==
    /\ tool = "deploy"
    /\ pc = "start"
    /\ environment \in Environments
    /\ skip_confirmation \in BOOLEAN
    /\ confirm = "unset"
    /\ account \in Accounts
    /\ project \in Projects
    /\ calls = <<Call("get_caller_identity", "", OK)>>
    /\ out = <<>>
    /\ raised = FALSE
    /\ idx = 1
    /\ dry_run = FALSE
    /\ force = FALSE
    /\ buckets_to_delete = "unset"
    /\ log_groups_to_delete = "unset"
    /\ listing = "unset"
    /\ cleanup_summary = NewSummary
    /\ build_dir = IF project.stale_build THEN <<"glue/stale_job.py">> ELSE <<>>
    /\ main_success = "unset"
    /\ main_outputs = "unset"
    /\ appflow_success = "unset"
    /\ NoEstimator

NextDeploy ==
    \/ deploy_confirm
    \/ clean_build
    \/ build_lambda_package
    \/ build_glue_scripts
    \/ create_artifact_bucket
    \/ upload_lambda
    \/ upload_glue_file
    \/ upload_glue_done
    \/ upload_template
    \/ upload_templates_done
    \/ deploy_main
    \/ get_stack_outputs
    \/ deploy_appflow
    \/ upload_glue_script
    \/ upload_glue_scripts_done
    \/ upload_lambda_code

SpecDeploy == InitDeploy /\ [][NextDeploy]_vars

(***************************************************************************)
(* Both utilities.                                                         *)
(***************************************************************************)
Init == InitCleanup \/ InitDeploy
Next == NextCleanup \/ NextDeploy
Spec == Init /\ [][Next]_vars

(***************************************************************************)
(* cost_estimator.py: CostEstimator.                                       *)
(*                                                                         *)
(* The estimator is a pure computation over two inputs and static tables.  *)
(* One action models one entry of the dict built by calculate_all_costs,   *)
(* one section of generate_report, or the output of main().  A caller may  *)
(* ask the same object for its report again (MaxEvaluations times).        *)
(* Every amount is computed in binary64 exactly as Python computes it, in  *)
(* the order of the source's expressions; an int below 2^53 is the same    *)
(* number as a float.  A formatted line keeps its text and the numbers     *)
(* rounded to the digits of the format; padding is left out.               *)
(***************************************************************************)
MaxEvaluations == 2      \* calls of generate_report on one estimator

\* class DataVolume(Enum): member name |-> value
DataVolume == [LOW |-> "low", MEDIUM |-> "medium", HIGH |-> "high"]

\* DataVolume(value): the member with that value
DataVolumeOf(value) == CHOOSE n \in DOMAIN DataVolume : DataVolume[n] = value

\* argparse choices of --data-volume
DataVolumeChoices == {"low", "medium", "high"}

\* argparse --output: a path, or "" when the flag is not given
Outputs == {"", "report.txt"}

\* self.env_multipliers
env_multipliers == [dev |-> Lit(10, 1), staging |-> Lit(15, 1), prod |-> Lit(30, 1)]

\* self.volume_config
volume_config ==
    [LOW |-> [records_per_month |-> 100000, glue_dpu_hours |-> 10,
              embedding_requests |-> 100000, rag_queries_per_day |-> 100,
              storage_gb |-> 10],
     MEDIUM |-> [records_per_month |-> 1000000, glue_dpu_hours |-> 50,
                 embedding_requests |-> 1000000, rag_queries_per_day |-> 1000,
                 storage_gb |-> 100],
     HIGH |-> [records_per_month |-> 10000000, glue_dpu_hours |-> 200,
               embedding_requests |-> 10000000, rag_queries_per_day |-> 10000,
               storage_gb |-> 1000]]

\* CostEstimator.__init__
CostEstimator(env, volume) ==
    [environment |-> env, data_volume |-> volume,
     env_multipliers |-> env_multipliers, volume_config |-> volume_config]

\* @dataclass ServiceCost; cost_components keeps the order of the dict literal
ServiceCost(name, description, hourly, daily, monthly, components, notes) ==
    [service_name |-> name, description |-> description,
     hourly_cost |-> hourly, daily_cost |-> daily, monthly_cost |-> monthly,
     cost_components |-> components, notes |-> notes]

Component(name, amount) == [name |-> name, amount |-> amount]

\* the line items whose hourly and daily costs are monthly / 720 and monthly / 30
MonthlyService(name, description, monthly, components, notes) ==
    ServiceCost(name, description, FDiv(monthly, Float(720)), FDiv(monthly, Float(30)),
                monthly, components, notes)

calculate_vpc_costs(self) ==
    ServiceCost("Amazon VPC", "Virtual Private Cloud networking", Zero, Zero, Zero,
                << Component("vpc", Zero), Component("subnets", Zero),
                   Component("route_tables", Zero), Component("security_groups", Zero) >>,
                Text("VPC, subnets, route tables, and security groups are free", <<>>))

calculate_nat_gateway_costs_ProdUsesTable(self) ==
    LET hourly_rate == Lit(45, 3)
        data_processed_per_hour_gb == Lit(5, 1)
        data_rate == Lit(45, 3)
        hourly == FAdd(hourly_rate, FMul(data_processed_per_hour_gb, data_rate))
        daily == FMul(hourly, Float(24))
        monthly == FMul(daily, Float(30))
        multiplier == self.env_multipliers[self.environment]
    IN ServiceCost("NAT Gateway", "Network Address Translation for private subnets",
                   FMul(hourly, multiplier), FMul(daily, multiplier),
                   FMul(monthly, multiplier),
                   << Component("hourly_charge", FMul(Lit(45, 3), multiplier)),
                      Component("data_processing",
                                FMul(FMul(data_processed_per_hour_gb, data_rate), multiplier)) >>,
                   Text("NAT Gateway is a significant cost; consider NAT instances for dev",
                        <<>>))

calculate_nat_gateway_costs_MonthlyNotMultiplied(self) ==
    LET hourly_rate == Lit(45, 3)
        data_processed_per_hour_gb == Lit(5, 1)
        data_rate == Lit(45, 3)
        hourly == FAdd(hourly_rate, FMul(data_processed_per_hour_gb, data_rate))
        daily == FMul(hourly, Float(24))
        monthly == FMul(daily, Float(30))
        multiplier == IF self.environment = "prod" THEN Float(2)
                      ELSE self.env_multipliers[self.environment]
    IN ServiceCost("NAT Gateway", "Network Address Translation for private subnets",
                   FMul(hourly, multiplier), FMul(daily, multiplier),
                   monthly,
                   << Component("hourly_charge", FMul(Lit(45, 3), multiplier)),
                      Component("data_processing",
                                FMul(FMul(data_processed_per_hour_gb, data_rate), multiplier)) >>,
                   Text("NAT Gateway is a significant cost; consider NAT instances for dev",
                        <<>>))

calculate_nat_gateway_costs(self) ==
    LET hourly_rate == Lit(45, 3)
        data_processed_per_hour_gb == Lit(5, 1)
        data_rate == Lit(45, 3)
        hourly == FAdd(hourly_rate, FMul(data_processed_per_hour_gb, data_rate))
        daily == FMul(hourly, Float(24))
        monthly == FMul(daily, Float(30))
        multiplier == IF self.environment = "prod" THEN Float(2)
                      ELSE self.env_multipliers[self.environment]
    IN ServiceCost("NAT Gateway", "Network Address Translation for private subnets",
                   FMul(hourly, multiplier), FMul(daily, multiplier),
                   FMul(monthly, multiplier),
                   << Component("hourly_charge", FMul(Lit(45, 3), multiplier)),
                      Component("data_processing",
                                FMul(FMul(data_processed_per_hour_gb, data_rate), multiplier)) >>,
                   Text("NAT Gateway is a significant cost; consider NAT instances for dev",
                        <<>>))

calculate_s3_costs(self) ==
    LET config == self.volume_config[self.data_volume]
        storage_gb == config.storage_gb
        storage_cost_per_gb == Lit(23, 3)
        put_requests == config.records_per_month * 2
        get_requests == config.records_per_month * 5
        put_cost == FMul(FDiv(Float(put_requests), Float(1000)), Lit(5, 3))
        get_cost == FMul(FDiv(Float(get_requests), Float(1000)), Lit(4, 4))
        storage == FMul(Float(storage_gb), storage_cost_per_gb)
        monthly == FAdd(FAdd(storage, put_cost), get_cost)
    IN MonthlyService("Amazon S3", "Object storage for raw and processed data", monthly,
                      << Component("storage", storage), Component("put_requests", put_cost),
                         Component("get_requests", get_cost) >>,
                      Text("Based on {}GB storage, {:,} PUT, {:,} GET requests",
                           <<storage_gb, put_requests, get_requests>>))

calculate_kms_costs(self) ==
    LET config == self.volume_config[self.data_volume]
        key_cost == Lit(10, 1)
        num_keys == 1
        requests == config.records_per_month * 3
        request_cost == FMul(FDiv(Float(requests), Float(10000)), Lit(3, 2))
        key_storage == FMul(key_cost, Float(num_keys))
        monthly == FAdd(key_storage, request_cost)
    IN MonthlyService("AWS KMS", "Key Management Service for encryption", monthly,
                      << Component("key_storage", key_storage),
                         Component("requests", request_cost) >>,
                      Text("Based on {:,} cryptographic requests/month", <<requests>>))

calculate_glue_costs_EnvMultiplied(self) ==
    LET config == self.volume_config[self.data_volume]
        dpu_hour_cost == Lit(44, 2)
        dpu_hours == config.glue_dpu_hours
        crawler_dpu_hour_cost == Lit(44, 2)
        crawler_hours == 2
        catalog_storage == Zero
        monthly_etl == FMul(FMul(Float(dpu_hours), dpu_hour_cost),
                            self.env_multipliers[self.environment])
        monthly_crawler == FMul(Float(crawler_hours * 30), crawler_dpu_hour_cost)
        monthly == FAdd(monthly_etl, monthly_crawler)
    IN MonthlyService("AWS Glue", "ETL jobs and data catalog", monthly,
                      << Component("etl_jobs", monthly_etl),
                         Component("crawlers", monthly_crawler),
                         Component("data_catalog", catalog_storage) >>,
                      Text("Based on {} DPU-hours/month for ETL", <<dpu_hours>>))

calculate_glue_costs(self) ==
    LET config == self.volume_config[self.data_volume]
        dpu_hour_cost == Lit(44, 2)
        dpu_hours == config.glue_dpu_hours
        crawler_dpu_hour_cost == Lit(44, 2)
        crawler_hours == 2
        catalog_storage == Zero
        monthly_etl == FMul(Float(dpu_hours), dpu_hour_cost)
        monthly_crawler == FMul(Float(crawler_hours * 30), crawler_dpu_hour_cost)
        monthly == FAdd(monthly_etl, monthly_crawler)
    IN MonthlyService("AWS Glue", "ETL jobs and data catalog", monthly,
                      << Component("etl_jobs", monthly_etl),
                         Component("crawlers", monthly_crawler),
                         Component("data_catalog", catalog_storage) >>,
                      Text("Based on {} DPU-hours/month for ETL", <<dpu_hours>>))

calculate_appflow_costs(self) ==
    LET config == self.volume_config[self.data_volume]
        flow_run_cost == Lit(1, 3)
        runs_per_month == 30 * 24
        gb_processed == FDiv(Float(config.storage_gb), Float(10))
        processing_cost == FMul(gb_processed, Lit(2, 2))
        flow_runs == FMul(flow_run_cost, Float(runs_per_month))
        monthly == FAdd(flow_runs, processing_cost)
    IN MonthlyService("Amazon AppFlow", "SaaS data integration", monthly,
                      << Component("flow_runs", flow_runs),
                         Component("data_processing", processing_cost) >>,
                      Text("Based on {} flow runs and {}GB processed",
                           <<runs_per_month, gb_processed>>))

\* instance_configs of _calculate_opensearch_costs
instance_configs ==
    [dev |-> [type |-> "t3.small.search", hourly |-> Lit(36, 3), count |-> 1],
     staging |-> [type |-> "t3.medium.search", hourly |-> Lit(73, 3), count |-> 2],
     prod |-> [type |-> "r6g.large.search", hourly |-> Lit(167, 3), count |-> 3]]

calculate_opensearch_costs(self) ==
    LET config == instance_configs[self.environment]
        instance_monthly == FMul(FMul(config.hourly, Float(720)), Float(config.count))
        storage_gb == self.volume_config[self.data_volume].storage_gb
        ebs_cost == FMul(Float(storage_gb), Lit(135, 3))
        monthly == FAdd(instance_monthly, ebs_cost)
    IN MonthlyService("Amazon OpenSearch", "Vector database for semantic search", monthly,
                      << Component("instances", instance_monthly),
                         Component("ebs_storage", ebs_cost) >>,
                      Text("Using {}x {} instances", <<config.count, config.type>>))

calculate_lambda_costs(self) ==
    LET config == self.volume_config[self.data_volume]
        requests_per_month == config.rag_queries_per_day * 30
        avg_duration_ms == 2000
        memory_mb == 1024
        gb_seconds == FMul(FDiv(Float(requests_per_month * avg_duration_ms), Float(1000)),
                           FDiv(Float(memory_mb), Float(1024)))
        compute_cost == FMul(gb_seconds, Lit(166667, 10))
        request_cost == FMul(FDiv(Float(requests_per_month), Float(1000000)), Lit(20, 2))
        monthly == FAdd(compute_cost, request_cost)
    IN MonthlyService("AWS Lambda", "Serverless compute for RAG queries", monthly,
                      << Component("compute", compute_cost),
                         Component("requests", request_cost) >>,
                      Text("Based on {:,} requests at {}ms average",
                           <<requests_per_month, avg_duration_ms>>))

calculate_api_gateway_costs(self) ==
    LET config == self.volume_config[self.data_volume]
        requests_per_month == config.rag_queries_per_day * 30
        api_cost == FMul(FDiv(Float(requests_per_month), Float(1000000)), Lit(350, 2))
    IN MonthlyService("Amazon API Gateway", "REST API endpoint", api_cost,
                      << Component("api_calls", api_cost) >>,
                      Text("Based on {:,} API calls", <<requests_per_month>>))

calculate_bedrock_costs_PerMillionTokens(self) ==
    LET config == self.volume_config[self.data_volume]
        embedding_requests == config.embedding_requests
        embedding_tokens == FMul(Float(embedding_requests), Float(500))
        embedding_cost == FMul(FDiv(embedding_tokens, Float(1000000)), Lit(1, 4))
        queries_per_month == config.rag_queries_per_day * 30
        input_tokens == queries_per_month * 3000
        output_tokens == queries_per_month * 500
        input_cost == FMul(FDiv(Float(input_tokens), Float(1000)), Lit(3, 3))
        output_cost == FMul(FDiv(Float(output_tokens), Float(1000)), Lit(15, 3))
        monthly == FAdd(FAdd(embedding_cost, input_cost), output_cost)
    IN MonthlyService("Amazon Bedrock", "GenAI embeddings and text generation", monthly,
                      << Component("embeddings", embedding_cost),
                         Component("claude_input", input_cost),
                         Component("claude_output", output_cost) >>,
                      Text("Bedrock is typically the largest cost component for RAG systems",
                           <<>>))

\* embedding_requests * 500 is an int product (5 * 10^9 for HIGH); it is
\* exact as a float and is divided as a float in the next line.
calculate_bedrock_costs(self) ==
    LET config == self.volume_config[self.data_volume]
        embedding_requests == config.embedding_requests
        embedding_tokens == FMul(Float(embedding_requests), Float(500))
        embedding_cost == FMul(FDiv(embedding_tokens, Float(1000)), Lit(1, 4))
        queries_per_month == config.rag_queries_per_day * 30
        input_tokens == queries_per_month * 3000
        output_tokens == queries_per_month * 500
        input_cost == FMul(FDiv(Float(input_tokens), Float(1000)), Lit(3, 3))
        output_cost == FMul(FDiv(Float(output_tokens), Float(1000)), Lit(15, 3))
        monthly == FAdd(FAdd(embedding_cost, input_cost), output_cost)
    IN MonthlyService("Amazon Bedrock", "GenAI embeddings and text generation", monthly,
                      << Component("embeddings", embedding_cost),
                         Component("claude_input", input_cost),
                         Component("claude_output", output_cost) >>,
                      Text("Bedrock is typically the largest cost component for RAG systems",
                           <<>>))

calculate_cloudwatch_costs(self) ==
    LET log_ingestion_gb == 5
        log_storage_gb == 20
        ingestion_cost == FMul(Float(log_ingestion_gb), Lit(50, 2))
        storage_cost == FMul(Float(log_storage_gb), Lit(3, 2))
        custom_metrics == 20
        metrics_cost == FMul(Float(custom_metrics), Lit(30, 2))
        alarms == 5
        alarm_cost == FMul(Float(alarms), Lit(10, 2))
        monthly == FAdd(FAdd(FAdd(ingestion_cost, storage_cost), metrics_cost), alarm_cost)
    IN MonthlyService("Amazon CloudWatch", "Monitoring and logging", monthly,
                      << Component("log_ingestion", ingestion_cost),
                         Component("log_storage", storage_cost),
                         Component("metrics", metrics_cost),
                         Component("alarms", alarm_cost) >>,
                      Text("Costs scale with log volume and retention", <<>>))

calculate_secrets_manager_costs(self) ==
    LET num_secrets == 5
        api_calls == 10000
        secret_cost == FMul(Float(num_secrets), Lit(40, 2))
        api_cost == FMul(FDiv(Float(api_calls), Float(10000)), Lit(5, 2))
        monthly == FAdd(secret_cost, api_cost)
    IN MonthlyService("AWS Secrets Manager", "Secure credential storage", monthly,
                      << Component("secrets", secret_cost),
                         Component("api_calls", api_cost) >>,
                      Text("Based on {} secrets", <<num_secrets>>))

\* the keys of the dict literal of calculate_all_costs, in its order
ServiceKeys == << "vpc", "nat_gateway", "s3", "kms", "glue", "appflow", "opensearch",
                  "lambda", "api_gateway", "bedrock", "cloudwatch", "secrets_manager" >>

\* the value of one entry of the dict literal
calculate(self, key) ==
    CASE key = "vpc" -> calculate_vpc_costs(self)
      [] key = "nat_gateway" -> calculate_nat_gateway_costs(self)
      [] key = "s3" -> calculate_s3_costs(self)
      [] key = "kms" -> calculate_kms_costs(self)
      [] key = "glue" -> calculate_glue_costs(self)
      [] key = "appflow" -> calculate_appflow_costs(self)
      [] key = "opensearch" -> calculate_opensearch_costs(self)
      [] key = "lambda" -> calculate_lambda_costs(self)
      [] key = "api_gateway" -> calculate_api_gateway_costs(self)
      [] key = "bedrock" -> calculate_bedrock_costs(self)
      [] key = "cloudwatch" -> calculate_cloudwatch_costs(self)
      [] key = "secrets_manager" -> calculate_secrets_manager_costs(self)

\* calculate_all_costs, as one value
calculate_all_costs(self) == [key \in Range(ServiceKeys) |-> calculate(self, key)]

\* costs.values() / [costs[s] ... for s in services if s in costs]
Values(d, keys) == [i \in 1..Len(keys) |-> d[keys[i]]]
MonthlyCosts(d, keys) == [i \in 1..Len(keys) |-> d[keys[i]].monthly_cost]

categories_WithoutApiGateway ==
    << [category |-> "Compute", services |-> <<"glue", "lambda", "opensearch">>],
       [category |-> "AI/ML", services |-> <<"bedrock">>],
       [category |-> "Storage", services |-> <<"s3">>],
       [category |-> "Networking", services |-> <<"nat_gateway", "vpc">>],
       [category |-> "Integration", services |-> <<"appflow">>],
       [category |-> "Security", services |-> <<"kms", "secrets_manager">>],
       [category |-> "Monitoring", services |-> <<"cloudwatch">>] >>

\* categories of generate_report, in the order of the dict literal
categories ==
    << [category |-> "Compute", services |-> <<"glue", "lambda", "opensearch">>],
       [category |-> "AI/ML", services |-> <<"bedrock">>],
       [category |-> "Storage", services |-> <<"s3">>],
       [category |-> "Networking", services |-> <<"nat_gateway", "vpc">>],
       [category |-> "Integration", services |-> <<"appflow", "api_gateway">>],
       [category |-> "Security", services |-> <<"kms", "secrets_manager">>],
       [category |-> "Monitoring", services |-> <<"cloudwatch">>] >>

\* generate_report, lines 438-473: the totals, the table and the heading of
\* the category section
Totals(d) ==
    [hourly |-> FSum([i \in 1..Len(ServiceKeys) |-> d[ServiceKeys[i]].hourly_cost]),
     daily |-> FSum([i \in 1..Len(ServiceKeys) |-> d[ServiceKeys[i]].daily_cost]),
     monthly |-> FSum(MonthlyCosts(d, ServiceKeys))]

ServiceRow(c) ==
    Text("{:<25} ${:>10.4f} ${:>10.2f} ${:>10.2f}",
         <<c.service_name, Fixed(c.hourly_cost, 4), Fixed(c.daily_cost, 2),
           Fixed(c.monthly_cost, 2)>>)

ReportTable(self, d, t) ==
    << Text(Repeat("=", 80), <<>>),
       Text("HOUSING MARKET INTELLIGENCE PLATFORM - AWS COST ESTIMATE", <<>>),
       Text(Repeat("=", 80), <<>>),
       Text("\nEnvironment: {}", <<Upper(self.environment)>>),
       Text("Data Volume: {}", <<Upper(DataVolume[self.data_volume])>>),
       Text("Region: us-east-1", <<>>),
       Text("", <<>>),
       Text(Repeat("-", 80), <<>>),
       Text("{:<25} {:>12} {:>12} {:>12}", <<"Service", "Hourly", "Daily", "Monthly">>),
       Text(Repeat("-", 80), <<>>) >>
    \o [i \in 1..Len(ServiceKeys) |-> ServiceRow(d[ServiceKeys[i]])]
    \o << Text(Repeat("-", 80), <<>>),
          Text("{:<25} ${:>10.4f} ${:>10.2f} ${:>10.2f}",
               <<"TOTAL", Fixed(t.hourly, 4), Fixed(t.daily, 2), Fixed(t.monthly, 2)>>),
          Text(Repeat("=", 80), <<>>),
          Text("\n\nCOST BREAKDOWN BY CATEGORY", <<>>),
          Text(Repeat("-", 40), <<>>) >>

\* one iteration of the category loop, lines 485-488
CategoryShare(d, t, c) ==
    LET services == SelectSeq(c.services, LAMBDA s : s \in DOMAIN d)
        category_cost == FSum(MonthlyCosts(d, services))
        percentage == IF FLt(Zero, t.monthly)
                      THEN FMul(FDiv(category_cost, t.monthly), Float(100))
                      ELSE Zero
    IN [category |-> c.category, category_cost |-> category_cost,
        percentage |-> percentage]

CategoryRow(s) ==
    Text("{:<20} ${:>10.2f} ({:>5.1f}%)",
         <<s.category, Fixed(s.category_cost, 2), Fixed(s.percentage, 1)>>)

\* generate_report, lines 490-512 (the bullet character of the source is
\* written '*')
Recommendations(self, d, t) ==
    << Text("\n\nCOST OPTIMIZATION RECOMMENDATIONS", <<>>), Text(Repeat("-", 40), <<>>) >>
    \o (IF self.environment = "dev"
        THEN << Text("* Consider using NAT instances instead of NAT Gateway ($0.04/hr vs $0.045/hr)", <<>>),
                Text("* Use t3.small OpenSearch for development", <<>>),
                Text("* Reduce Glue DPU hours by optimizing job efficiency", <<>>) >>
        ELSE <<>>)
    \o (IF FLt(FMul(t.monthly, Lit(3, 1)), d["bedrock"].monthly_cost)
        THEN << Text("* Bedrock costs are high - consider caching frequent queries", <<>>),
                Text("* Evaluate batch processing for embeddings vs real-time", <<>>) >>
        ELSE <<>>)
    \o (IF FLt(FMul(t.monthly, Lit(2, 1)), d["opensearch"].monthly_cost)
        THEN << Text("* Consider OpenSearch Serverless for variable workloads", <<>>),
                Text("* Optimize index mapping to reduce storage", <<>>) >>
        ELSE <<>>)
    \o << Text("\n\nNOTES", <<>>), Text(Repeat("-", 40), <<>>),
          Text("* Costs are estimates based on January 2025 pricing", <<>>),
          Text("* Actual costs may vary based on usage patterns", <<>>),
          Text("* Free tier benefits not included in calculations", <<>>),
          Text("* Data transfer costs not included (typically < 5% of total)", <<>>) >>

\* ---- the run --------------------------------------------------------------

\* estimator.generate_report() is entered (line 436 starts the dict)
generate_report ==
    /\ tool = "cost_estimator"
    /\ pc \in {"start", "returned"}
    /\ Len(evaluations) < MaxEvaluations
    /\ pc' = "calculate_all_costs"
    /\ idx' = 1
    /\ costs' = EmptyMap
    /\ totals' = "unset"
    /\ report' = <<>>
    /\ breakdown' = <<>>
    /\ UNCHANGED <<inputVars, cleanupVars, deployVars, calls, out, raised,
                   data_volume, output, estimator, evaluations>>

calculate_service_WritesTable ==
    /\ tool = "cost_estimator"
    /\ pc = "calculate_all_costs"
    /\ costs' = costs @@ (ServiceKeys[idx] :> calculate(estimator, ServiceKeys[idx]))
    /\ estimator' = IF ServiceKeys[idx] = "nat_gateway" /\ estimator.environment = "prod"
                    THEN [estimator EXCEPT !.env_multipliers["prod"] = Float(2)]
                    ELSE estimator
    /\ IF idx < Len(ServiceKeys)
       THEN idx' = idx + 1 /\ pc' = pc
       ELSE idx' = idx /\ pc' = "totals"
    /\ UNCHANGED <<inputVars, cleanupVars, deployVars, calls, out, raised,
                   data_volume, output, evaluations, totals, report, breakdown>>

\* calculate_all_costs: the next entry of the dict literal (lines 83-96)
calculate_service ==
    /\ tool = "cost_estimator"
    /\ pc = "calculate_all_costs"
    /\ costs' = costs @@ (ServiceKeys[idx] :> calculate(estimator, ServiceKeys[idx]))
    /\ estimator' = estimator
    /\ IF idx < Len(ServiceKeys)
       THEN idx' = idx + 1 /\ pc' = pc
       ELSE idx' = idx /\ pc' = "totals"
    /\ UNCHANGED <<inputVars, cleanupVars, deployVars, calls, out, raised,
                   data_volume, output, evaluations, totals, report, breakdown>>

\* generate_report, lines 438-473
report_table ==
    /\ tool = "cost_estimator"
    /\ pc = "totals"
    /\ totals' = Totals(costs)
    /\ report' = ReportTable(estimator, costs, totals')
    /\ pc' = "categories"
    /\ idx' = 1
    /\ UNCHANGED <<inputVars, cleanupVars, deployVars, calls, out, raised,
                   data_volume, output, estimator, evaluations, costs, breakdown>>

\* generate_report, lines 485-488: one category
report_category ==
    /\ tool = "cost_estimator"
    /\ pc = "categories"
    /\ LET share == CategoryShare(costs, totals, categories[idx])
       IN /\ breakdown' = Append(breakdown, share)
          /\ report' = Append(report, CategoryRow(share))
    /\ IF idx < Len(categories)
       THEN idx' = idx + 1 /\ pc' = pc
       ELSE idx' = idx /\ pc' = "recommendations"
    /\ UNCHANGED <<inputVars, cleanupVars, deployVars, calls, out, raised,
                   data_volume, output, estimator, evaluations, costs, totals>>

\* generate_report, lines 490-514: recommendations, notes and the return
report_recommendations ==
    /\ tool = "cost_estimator"
    /\ pc = "recommendations"
    /\ report' = report \o Recommendations(estimator, costs, totals)
    /\ evaluations' = Append(evaluations, [costs |-> costs, report |-> report'])
    /\ pc' = "returned"
    /\ UNCHANGED <<inputVars, cleanupVars, deployVars, calls, out, raised, idx,
                   data_volume, output, estimator, costs, totals, breakdown>>

\* main, lines 534-539: the report goes to the file or to standard output
write_report ==
    /\ tool = "cost_estimator"
    /\ pc = "returned"
    /\ IF output # ""
       THEN \E e \in {OK, FileNotFound} :
              /\ calls' = Append(calls, Call("open", output, e))
              /\ raised' = Failed(e)
              /\ out' = IF Failed(e) THEN out
                        ELSE Append(out, Text("Report saved to {}", <<output>>))
       ELSE /\ out' = out \o evaluations[Len(evaluations)].report
            /\ UNCHANGED <<calls, raised>>
    /\ pc' = "done"
    /\ UNCHANGED <<inputVars, cleanupVars, deployVars, idx, costVars>>

InitCost ==
    /\ tool = "cost_estimator"
    /\ pc = "start"
    /\ environment \in Environments
    /\ data_volume \in DataVolumeChoices
    /\ output \in Outputs
    /\ estimator = CostEstimator(environment, DataVolumeOf(data_volume))
    /\ costs = EmptyMap
    /\ totals = "unset"
    /\ report = <<>>
    /\ breakdown = <<>>
    /\ evaluations = <<>>
    /\ confirm = "unset"
    /\ account = Account(0)
    /\ project = [scripts |-> <<>>, templates |-> <<>>, stale_build |-> FALSE]
    /\ calls = <<>>
    /\ out = <<>>
    /\ raised = FALSE
    /\ idx = 1
    /\ dry_run = FALSE
    /\ force = FALSE
    /\ buckets_to_delete = "unset"
    /\ log_groups_to_delete = "unset"
    /\ listing = "unset"
    /\ cleanup_summary = NewSummary
    /\ skip_confirmation = FALSE
    /\ build_dir = <<>>
    /\ main_success = "unset"
    /\ main_outputs = "unset"
    /\ appflow_success = "unset"

NextCost ==
    \/ generate_report
    \/ calculate_service
    \/ report_table
    \/ report_category
    \/ report_recommendations
    \/ write_report

SpecCost == InitCost /\ [][NextCost]_vars

(***************************************************************************)
(* Properties.                                                             *)
(***************************************************************************)
CallFailed(c) == c.exc # ""
Printed(line) == line \in Range(out)
CallsOf(op, arg) == {i \in DOMAIN calls : calls[i].op = op /\ calls[i].arg = arg}

\* C1: in a teardown run with dry_run set, whatever the provider holds and
\* however the read-only calls end, no mutating provider call is ever issued.
C1_DryRunIssuesNoMutatingCall ==
    (tool = "cleanup" /\ dry_run) =>
        \A i \in DOMAIN calls : calls[i].op \notin MutatingOps

\* a dry run that went through all five phases with buckets, log groups, jobs,
\* crawlers and stacks to clean
C1_Witness ==
    /\ tool = "cleanup" /\ dry_run /\ pc = "done" /\ ~raised
    /\ Len(buckets_to_delete) >= 2
    /\ Len(log_groups_to_delete) >= 1
    /\ Printed("  [DRY RUN] Would delete stack: " \o stack_names(environment)[1])
    /\ Printed("  [DRY RUN] Would delete database: " \o db_name(environment))
    /\ \E i \in DOMAIN out : StartsWith(out[i], "  [DRY RUN] Would delete job: ")
    /\ \E i \in DOMAIN out : StartsWith(out[i], "  [DRY RUN] Would delete crawler: ")
    /\ Printed("CLEANUP SUMMARY")

\* the calls by which the provider reports a resource as absent
AbsentStackCall(c) ==
    c.at = "delete_stacks" /\ c.op = "describe_stacks" /\ IsClientError(c)
AbsentBucketCall(c) == c.op = "delete_bucket" /\ c.exc = "NoSuchBucket"
AbsentDatabaseCall(c) == c.op = "delete_database" /\ c.exc = "EntityNotFoundException"

\* the failed calls of a teardown that are not reports of absence and belong
\* to the phases that record errors (storage emptying, stack deletion)
RecordedFailure(c) ==
    /\ CallFailed(c)
    /\ \/ c.op = "object_versions.delete"
       \/ c.at = "delete_stacks" /\ ~AbsentStackCall(c)

\* C2: deleting a resource the provider reports as absent counts as success:
\* for a stack whose describe fails, a bucket whose delete reports
\* NoSuchBucket and a database whose delete reports EntityNotFound, nothing is
\* appended to errors (errors holds exactly one entry per other failure of the
\* recording phases), no exception escapes, the next resource is attempted
\* and a finished run has printed its summary.
C2_AbsentIsSuccess ==
    tool = "cleanup" =>
        /\ Len(cleanup_summary.errors)
             = Cardinality({i \in DOMAIN calls : RecordedFailure(calls[i])})
        /\ \A i \in DOMAIN calls :
             LET c == calls[i]
             IN (AbsentStackCall(c) \/ AbsentBucketCall(c) \/ AbsentDatabaseCall(c)) =>
                  /\ ~raised
                  /\ pc = "done" => Printed("CLEANUP SUMMARY")
                  /\ (AbsentStackCall(c) /\ c.arg = stack_names(environment)[1]
                        /\ i < Len(calls)) =>
                       /\ calls[i + 1].op = "describe_stacks"
                       /\ calls[i + 1].arg = stack_names(environment)[2]
                       /\ calls[i + 1].at = "delete_stacks"
                  /\ \A k \in 1..(Len(buckets_to_delete) - 1) :
                       (AbsentBucketCall(c) /\ c.arg = buckets_to_delete[k]
                          /\ i < Len(calls)) =>
                         /\ calls[i + 1].op = "delete_bucket"
                         /\ calls[i + 1].arg = buckets_to_delete[k + 1]
                  /\ (AbsentDatabaseCall(c) /\ i < Len(calls)) =>
                       calls[i + 1].at = "delete_stacks"

\* a finished live run in which both stacks, the database and a bucket were
\* reported absent, and nothing was recorded as an error
C2_Witness ==
    /\ tool = "cleanup" /\ ~dry_run /\ pc = "done"
    /\ \A n \in 1..2 : \E i \in DOMAIN calls :
         AbsentStackCall(calls[i]) /\ calls[i].arg = stack_names(environment)[n]
    /\ \E i \in DOMAIN calls : AbsentBucketCall(calls[i])
    /\ \E i \in DOMAIN calls : AbsentDatabaseCall(calls[i])
    /\ cleanup_summary.errors = <<>>
    /\ Printed("CLEANUP SUMMARY")

\* the value deploy() holds for the stack of a create/update call
StepResult(c) ==
    IF c.arg = main_stack_name(environment) THEN main_success ELSE appflow_success

StackChangeCall(c) == c.op \in {"create_stack", "update_stack"}
WaitCall(c) == StartsWith(c.op, "wait:")

\* C3: when the create/update call of deploy_stack fails with a provider
\* client error, deploy_stack does not wait and returns True exactly when the
\* message contains 'No updates are to be performed' (False otherwise); so a
\* rerun in which both updates report no changes passes both stack phases
\* with success and reaches Phase 5.
C3_NoUpdatesIsSuccess ==
    tool = "deploy" =>
        /\ \A i \in DOMAIN calls :
             LET c == calls[i]
             IN (StackChangeCall(c) /\ IsClientError(c)) =>
                  /\ i < Len(calls) => ~WaitCall(calls[i + 1])
                  /\ StepResult(c) = Contains(c.msg, "No updates are to be performed")
        /\ (\A name \in {main_stack_name(environment), appflow_stack_name(environment)} :
              \E i \in CallsOf("update_stack", name) : calls[i].msg = NoUpdates.msg) =>
             /\ main_success = TRUE /\ appflow_success = TRUE
             /\ Printed("PHASE 5: Post-Deployment Configuration")

\* a rerun: both stacks exist and both updates report no changes
C3_Witness ==
    /\ tool = "deploy" /\ pc = "done" /\ ~raised
    /\ \A name \in {main_stack_name(environment), appflow_stack_name(environment)} :
         \E i \in CallsOf("update_stack", name) : calls[i].msg = NoUpdates.msg
    /\ Printed("DEPLOYMENT COMPLETE")

\* C4: in a live teardown without force, a typed confirmation different from
\* the environment name ends the run before Phase 1: no discovery, no provider
\* call after construction, the summary accumulator untouched.
C4_WrongConfirmationStopsTeardown ==
    (tool = "cleanup" /\ ~dry_run /\ ~force /\ pc # "start" /\ confirm # environment) =>
        /\ pc = "done"
        /\ ~raised
        /\ calls = <<[Call("get_caller_identity", "", OK) EXCEPT !.at = "start"]>>
        /\ buckets_to_delete = "unset"
        /\ log_groups_to_delete = "unset"
        /\ cleanup_summary = NewSummary
        /\ out = <<"Cleanup cancelled">>

\* the operator typed the environment name in another case
C4_Witness ==
    /\ tool = "cleanup" /\ ~dry_run /\ ~force /\ pc = "done"
    /\ environment = "dev" /\ confirm = "DEV"
    /\ Len(account.buckets) >= 1

\* the files under build/ before the run
InitialBuild == IF project.stale_build THEN <<"glue/stale_job.py">> ELSE <<>>

\* C5: in a deploy run without the skip-confirmation flag, an answer other
\* than 'y' (in either case) ends the run before Phase 1: the build directory
\* is neither cleaned nor written, nothing is uploaded, no stack is created
\* or updated.
C5_DeclinedDeployDoesNothing ==
    (tool = "deploy" /\ ~skip_confirmation /\ pc # "start" /\ Lower(confirm) # "y") =>
        /\ pc = "done"
        /\ ~raised
        /\ calls = <<[Call("get_caller_identity", "", OK) EXCEPT !.at = "start"]>>
        /\ build_dir = InitialBuild
        /\ out = <<"Deployment cancelled">>

\* the operator answered 'yes' while a build directory of an earlier run exists
C5_Witness ==
    /\ tool = "deploy" /\ ~skip_confirmation /\ pc = "done"
    /\ confirm = "yes"
    /\ build_dir # <<>>

\* the failed delete_stack and delete-wait calls of a teardown
StackDeleteFailure(c) ==
    CallFailed(c) /\ c.op \in {"delete_stack", "wait:stack_delete_complete"}

CleanupOps == {"get_caller_identity", "list_buckets", "describe_log_groups",
               "describe_stacks", "object_versions.delete", "get_jobs", "delete_job",
               "get_crawlers", "stop_crawler", "time.sleep", "delete_crawler",
               "get_tables", "delete_table", "delete_database", "delete_stack",
               "wait:stack_delete_complete", "delete_log_group", "delete_bucket"}

\* C6: on teardown a failure of delete_stack or of the delete wait aborts
\* only that stack's step: one error entry is recorded for the stack, the
\* other stack is still attempted, Phase 5 runs and the summary is printed;
\* delete_stack is issued at most once per stack and nothing is rolled back.
C6_StackFailureIsLocal ==
    tool = "cleanup" =>
        /\ \A i \in DOMAIN calls :
             LET c == calls[i]
             IN StackDeleteFailure(c) =>
                  /\ ~raised
                  /\ Cardinality({k \in DOMAIN cleanup_summary.errors :
                        cleanup_summary.errors[k]
                          = "Could not delete stack " \o c.arg \o ": " \o c.msg}) = 1
                  /\ c.arg \notin Range(cleanup_summary.stacks_deleted)
                  /\ (c.arg = stack_names(environment)[1] /\ i < Len(calls)) =>
                       /\ calls[i + 1].op = "describe_stacks"
                       /\ calls[i + 1].arg = stack_names(environment)[2]
                       /\ calls[i + 1].at = "delete_stacks"
                  /\ (i = Len(calls) /\ c.arg = stack_names(environment)[1]) =>
                       pc = "delete_stacks"
                  /\ pc = "done" =>
                       /\ Printed("PHASE 5: Cleanup Orphaned Resources")
                       /\ Printed("CLEANUP SUMMARY")
                       /\ \A n \in DOMAIN buckets_to_delete :
                            CallsOf("delete_bucket", buckets_to_delete[n]) # {}
                       /\ \A n \in DOMAIN log_groups_to_delete :
                            CallsOf("delete_log_group", log_groups_to_delete[n]) # {}
        /\ \A name \in Range(stack_names(environment)) :
             Cardinality(CallsOf("delete_stack", name)) <= 1
        /\ \A i \in DOMAIN calls : calls[i].op \in CleanupOps

\* a finished run in which the delete of the first stack failed and the
\* second stack was then deleted, with buckets and log groups to clean in Phase 5
C6_Witness ==
    /\ tool = "cleanup" /\ pc = "done"
    /\ \E i \in DOMAIN calls :
         StackDeleteFailure(calls[i]) /\ calls[i].arg = stack_names(environment)[1]
    /\ cleanup_summary.stacks_deleted = <<stack_names(environment)[2]>>
    /\ Len(buckets_to_delete) >= 1 /\ Len(log_groups_to_delete) >= 1

\* a create/update step of deploy that ended in failure: the create/update
\* call was rejected (for another reason than "no updates"), or the wait
\* ended in CREATE_FAILED / UPDATE_FAILED or ran out of attempts
DeployStepFailure(c) ==
    /\ CallFailed(c)
    /\ \/ StackChangeCall(c) /\ ~Contains(c.msg, "No updates are to be performed")
       \/ c.op \in {"wait:stack_create_complete", "wait:stack_update_complete"}

\* the create/update call of a deploy step was rejected with a client error
DeployStepRejected(c) ==
    /\ StackChangeCall(c) /\ IsClientError(c)
    /\ ~Contains(c.msg, "No updates are to be performed")

C8_WaitFailureIsReportedAsFailed ==
    \A i \in DOMAIN calls :
        LET c == calls[i]
        IN (WaitCall(c) /\ CallFailed(c)) =>
             IF tool = "cleanup"
             THEN /\ Cardinality({k \in DOMAIN cleanup_summary.errors :
                        cleanup_summary.errors[k]
                          = "Could not delete stack " \o c.arg \o ": " \o c.msg}) = 1
                  /\ c.arg \notin Range(cleanup_summary.stacks_deleted)
                  /\ ~raised
             ELSE /\ i = Len(calls) => ~raised
                  /\ StepResult(c) = FALSE

\* the outputs of the base stack the appflow stack and the placement are
\* parameterized by
NeededOutputs == {"RawDataBucketName", "KMSKeyArn", "ProcessedDataBucketName"}

PlacementCall(c) ==
    c.op = "upload_file" /\ c.at \in {"upload_glue_scripts", "upload_lambda_code"}
AppflowCall(c) == StackChangeCall(c) /\ c.arg = appflow_stack_name(environment)

\* C9 as stated: the appflow stack is deployed, and the placement is done,
\* only with the base stack's outputs available: never with an empty mapping
\* or empty-string parameters.
C9_OutputsAvailableBeforeAppflow ==
    tool = "deploy" =>
        \A i \in DOMAIN calls :
            (AppflowCall(calls[i]) \/ PlacementCall(calls[i])) =>
                /\ main_success = TRUE
                /\ NeededOutputs \subseteq DOMAIN main_outputs
                /\ \A key \in NeededOutputs : main_outputs[key] # ""

\* C9 as amended: the appflow stack is deployed, and the placement is done,
\* only after deploy_stack returned True for the base stack and the outputs
\* were read after that; the appflow stack is parameterized by the
\* RawDataBucketName and KMSKeyArn values that were read, or by empty strings
\* where the mapping lacks them (it is empty when the read failed); the
\* placement uploads only when ProcessedDataBucketName was read and is not
\* empty.
C9_OutputsReadBeforeAppflow ==
    tool = "deploy" =>
        \A i \in DOMAIN calls :
            LET c == calls[i]
            IN (AppflowCall(c) \/ PlacementCall(c)) =>
                 /\ main_success = TRUE
                 /\ \E j \in 1..(i - 1) :
                      /\ calls[j].op = "describe_stacks" /\ calls[j].at = "get_stack_outputs"
                      /\ calls[j].arg = main_stack_name(environment)
                      /\ \E h \in 1..(j - 1) :
                           /\ calls[h].at = "deploy_main"
                           /\ calls[h].arg = main_stack_name(environment)
                           /\ StackChangeCall(calls[h])
                      /\ CallFailed(calls[j]) => main_outputs = EmptyMap
                 /\ AppflowCall(c) =>
                      \A key \in {"RawDataBucketName", "KMSKeyArn"} :
                          c.params[key] = IF key \in DOMAIN main_outputs
                                          THEN main_outputs[key] ELSE ""
                 /\ PlacementCall(c) =>
                      /\ "ProcessedDataBucketName" \in DOMAIN main_outputs
                      /\ main_outputs["ProcessedDataBucketName"] # ""

\* the outputs could not be read, the appflow stack was created with
\* empty-string parameters and the run reached its summary without placement
C9_Witness ==
    /\ tool = "deploy" /\ pc = "done" /\ ~raised
    /\ Printed("DEPLOYMENT COMPLETE")
    /\ main_outputs = EmptyMap
    /\ \E i \in CallsOf("create_stack", appflow_stack_name(environment)) :
         calls[i].params["RawDataBucketName"] = "" /\ ~CallFailed(calls[i])
    /\ \A i \in DOMAIN calls : ~PlacementCall(calls[i])

\* C10: in live storage emptying a failure on one bucket records exactly one
\* error entry naming that bucket, leaves it out of buckets_emptied, and every
\* bucket of buckets_to_delete is still attempted (once); Phase 2 never raises.
C10_EmptyingFailsSoft ==
    (tool = "cleanup" /\ ~dry_run) =>
        /\ \A i \in DOMAIN calls :
             LET c == calls[i]
             IN (c.op = "object_versions.delete" /\ CallFailed(c)) =>
                  /\ Cardinality({k \in DOMAIN cleanup_summary.errors :
                        StartsWith(cleanup_summary.errors[k],
                                   "Could not empty bucket " \o c.arg \o ":")}) = 1
                  /\ c.arg \notin Range(cleanup_summary.buckets_emptied)
                  /\ ~raised
                  /\ \A n \in 1..(Len(buckets_to_delete) - 1) :
                       (c.arg = buckets_to_delete[n] /\ i < Len(calls)) =>
                         /\ calls[i + 1].op = "object_versions.delete"
                         /\ calls[i + 1].arg = buckets_to_delete[n + 1]
        /\ pc \in {"glue_jobs", "delete_stacks", "done"} /\ Printed("PHASE 3: Clean Glue Resources")
             => \A n \in DOMAIN buckets_to_delete :
                  Cardinality(CallsOf("object_versions.delete", buckets_to_delete[n])) = 1

\* emptying the first of two discovered buckets failed, the second was
\* emptied, and the run went on
C10_Witness ==
    /\ tool = "cleanup" /\ ~dry_run /\ pc = "done"
    /\ Len(buckets_to_delete) = 2
    /\ \E i \in CallsOf("object_versions.delete", buckets_to_delete[1]) :
         CallFailed(calls[i])
    /\ cleanup_summary.buckets_emptied = <<buckets_to_delete[2]>>
    /\ Len(cleanup_summary.errors) = 1

\* the calls of Phase 1 (_discover_resources)
DiscoveryCall(c) ==
    c.at \in {"discover_buckets", "discover_log_groups", "discover_stacks"}

\* C11: during discovery an error of a listing or describe call (list_buckets,
\* describe_log_groups, describe_stacks) degrades to an empty list or a
\* NOT FOUND line: nothing escapes _discover_resources, the run is not
\* aborted (Phase 2 starts, a finished run has printed its summary), and both
\* lists are lists of names of the account when Phase 2 starts.
C11_DiscoveryErrorsDegrade ==
    tool = "cleanup" =>
        /\ \A i \in DOMAIN calls :
             (DiscoveryCall(calls[i]) /\ CallFailed(calls[i])) =>
                /\ ~raised
                /\ pc = "done" => /\ Printed("PHASE 2: Empty S3 Buckets")
                                  /\ Printed("CLEANUP SUMMARY")
        /\ Printed("PHASE 2: Empty S3 Buckets") =>
             /\ Range(buckets_to_delete) \subseteq Range(account.buckets)
             /\ Range(log_groups_to_delete) \subseteq Range(account.log_groups)

\* the failed per-resource operations of discovery, storage emptying and
\* orphan cleanup that are not reports of absence
SoftFailure(c) ==
    /\ CallFailed(c)
    /\ \/ c.op \in {"list_buckets", "describe_log_groups"}
       \/ c.op = "object_versions.delete"
       \/ c.op = "delete_log_group"
       \/ c.op = "delete_bucket" /\ ~AbsentBucketCall(c)

\* the entries of errors that are not about a stack (Phase 4 records those)
NonStackErrors ==
    {k \in DOMAIN cleanup_summary.errors :
        ~StartsWith(cleanup_summary.errors[k], "Could not delete stack ")}

\* C12: every per-resource failure of discovery, storage emptying and orphan
\* cleanup (log-group delete, bucket delete) is caught and appended to
\* cleanup_summary['errors']: the errors list holds one entry for each
\* resource whose operation failed in those phases, and nothing is raised.
C12_SoftFailuresAreRecorded ==
    tool = "cleanup" =>
        /\ Cardinality(NonStackErrors)
             = Cardinality({i \in DOMAIN calls : SoftFailure(calls[i])})
        /\ \A i \in DOMAIN calls : SoftFailure(calls[i]) => ~raised

DatabaseDeletes == CallsOf("delete_database", db_name(environment))

\* C13 as stated: whenever delete_database is called, the table listing
\* succeeded and a delete_table call has succeeded for each listed table.
C13_DatabaseDeletedAfterEveryTable ==
    tool = "cleanup" =>
        \A i \in DatabaseDeletes :
            \E j \in 1..(i - 1) :
                /\ calls[j].op = "get_tables" /\ ~CallFailed(calls[j])
                /\ \A t \in Range(account.tables) :
                     \E h \in (j + 1)..(i - 1) :
                         /\ calls[h].op = "delete_table" /\ calls[h].arg = t
                         /\ ~CallFailed(calls[h])

\* C13 as amended: in live catalog cleanup delete_database is issued once,
\* after the table listing was attempted and the table loop has ended: the
\* calls between get_tables and delete_database are the delete_table calls of
\* the listed tables in listing order, up to the first one that fails; no
\* delete_table follows delete_database; when the listing succeeded and no
\* delete_table failed, every listed table was deleted before the database.
\* A failed listing or delete_table does not prevent delete_database.
C13_TablesAttemptedBeforeDatabase ==
    tool = "cleanup" =>
        /\ Cardinality(DatabaseDeletes) <= 1
        /\ \A i \in DatabaseDeletes :
             /\ ~dry_run
             /\ \A h \in DOMAIN calls : calls[h].op = "delete_table" => h < i
             /\ \E j \in 1..(i - 1) :
                  /\ calls[j].op = "get_tables" /\ calls[j].arg = db_name(environment)
                  /\ CallFailed(calls[j]) => i = j + 1
                  /\ \A h \in (j + 1)..(i - 1) :
                       /\ calls[h].op = "delete_table"
                       /\ h - j <= Len(account.tables)
                       /\ calls[h].arg = account.tables[h - j]
                       /\ CallFailed(calls[h]) => h = i - 1
                  /\ (~CallFailed(calls[j]) /\ ~CallFailed(calls[i - 1])) =>
                       i - j - 1 = Len(account.tables)

\* the first table was deleted, deleting the second failed, and the database
\* was deleted all the same
C13_Witness ==
    /\ tool = "cleanup" /\ pc = "done"
    /\ \E i \in DatabaseDeletes :
         /\ ~CallFailed(calls[i])
         /\ calls[i - 1].op = "delete_table" /\ CallFailed(calls[i - 1])
         /\ calls[i - 2].op = "delete_table" /\ ~CallFailed(calls[i - 2])

\* the existence checks of stack reconciliation (deploy_stack, _delete_stacks)
ReconcileDescribes(name) ==
    {i \in DOMAIN calls :
        /\ calls[i].op = "describe_stacks" /\ calls[i].arg = name
        /\ calls[i].at \in {"deploy_main", "deploy_appflow", "delete_stacks"}}

\* the actions of stack reconciliation on a stack
StackActions(name) ==
    {i \in DOMAIN calls :
        calls[i].op \in {"create_stack", "update_stack", "delete_stack"} /\ calls[i].arg = name}

\* C14 as stated: per stack and per invocation there is one existence check
\* and then exactly one action chosen by it: on deploy create_stack if the
\* describe fails and update_stack if it succeeds (never both, never neither);
\* on live teardown no delete_stack if it fails, one delete_stack if it succeeds.
C14_OneCheckOneAction ==
    \A name \in Range(stack_names(environment)) :
        /\ Cardinality(ReconcileDescribes(name)) <= 1
        /\ \A i \in ReconcileDescribes(name) :
             IF tool = "deploy"
             THEN /\ Cardinality(StackActions(name)) = 1
                  /\ i < Len(calls)
                  /\ calls[i + 1].arg = name
                  /\ calls[i + 1].op = IF CallFailed(calls[i]) THEN "create_stack"
                                                               ELSE "update_stack"
             ELSE IF CallFailed(calls[i])
                  THEN StackActions(name) = {}
                  ELSE /\ Cardinality(StackActions(name)) = 1
                       /\ calls[i + 1].arg = name /\ calls[i + 1].op = "delete_stack"

\* C14 as amended: per stack and per invocation there is one existence check
\* and at most one action, issued right after it and chosen by it.  On deploy:
\* update_stack if the describe succeeds, create_stack if it fails with a
\* provider client error, and neither if it fails with another error (the
\* error then escapes deploy_stack).  On live teardown: one delete_stack if
\* the describe succeeds, none if it fails.  No action is issued without the
\* existence check before it.
C14_OneCheckAtMostOneAction ==
    \A name \in Range(stack_names(environment)) :
        /\ Cardinality(ReconcileDescribes(name)) <= 1
        /\ Cardinality(StackActions(name)) <= 1
        /\ \A h \in StackActions(name) : (h - 1) \in ReconcileDescribes(name)
        /\ \A i \in ReconcileDescribes(name) :
             IF tool = "deploy"
             THEN IF CallFailed(calls[i]) /\ ~IsClientError(calls[i])
                  THEN StackActions(name) = {} /\ i = Len(calls) /\ raised
                  ELSE /\ StackActions(name) = {i + 1}
                       /\ calls[i + 1].op = IF CallFailed(calls[i]) THEN "create_stack"
                                                                    ELSE "update_stack"
             ELSE /\ ~dry_run
                  /\ IF CallFailed(calls[i])
                     THEN StackActions(name) = {}
                     ELSE StackActions(name) = {i + 1} /\ calls[i + 1].op = "delete_stack"

\* a deploy that updated the existing base stack and created the absent
\* appflow stack
C14_Witness ==
    /\ tool = "deploy" /\ pc = "done" /\ ~raised
    /\ Cardinality(CallsOf("update_stack", main_stack_name(environment))) = 1
    /\ Cardinality(CallsOf("create_stack", appflow_stack_name(environment))) = 1
    /\ Printed("DEPLOYMENT COMPLETE")

\* what discovery computes from the provider state alone: the held buckets
\* with the '{project}-{environment}' prefix, and for each log prefix in turn
\* the held groups under it whose name contains the environment
ExpectedBuckets ==
    SelectSeqBy(account.buckets,
                {b \in Range(account.buckets) :
                    StartsWith(b, "housing-market-intel-" \o environment)})
ExpectedLogGroups ==
    LET under(p) == SelectSeqBy(account.log_groups,
                        {g \in Range(account.log_groups) :
                            StartsWith(g, p) /\ Contains(g, environment)})
    IN under("/aws/glue/housing-market-intel")
         \o under("/aws/lambda/housing-market-intel")
         \o under("/aws/opensearch/housing-market-intel")

\* C15: discovery does not depend on the dry-run flag: in a dry run and in a
\* live run alike, buckets_to_delete, log_groups_to_delete and the reported
\* stack statuses are the same function of the provider state (what the
\* account holds and how the listing and describe calls end).
C15_DiscoveryIgnoresDryRun ==
    tool = "cleanup" =>
        /\ \A i \in DOMAIN calls :
             calls[i].op = "list_buckets" =>
                buckets_to_delete = IF CallFailed(calls[i]) THEN <<>> ELSE ExpectedBuckets
        /\ (\E i \in DOMAIN calls : calls[i].op = "describe_log_groups") =>
             log_groups_to_delete =
                IF \E i \in DOMAIN calls :
                      calls[i].op = "describe_log_groups" /\ CallFailed(calls[i])
                THEN <<>> ELSE ExpectedLogGroups
        /\ \A i \in DOMAIN calls :
             (calls[i].op = "describe_stacks" /\ calls[i].at = "discover_stacks") =>
                /\ ~CallFailed(calls[i]) <=>
                     (calls[i].arg \in Range(account.stacks)
                        /\ Printed("  " \o calls[i].arg \o ": CREATE_COMPLETE"))
                /\ IsClientError(calls[i]) <=> Printed("  " \o calls[i].arg \o ": NOT FOUND")

\* a dry run that discovered two buckets, a log group and an existing stack
C15_Witness ==
    /\ tool = "cleanup" /\ dry_run /\ Printed("PHASE 2: Empty S3 Buckets")
    /\ Len(buckets_to_delete) >= 2 /\ Len(log_groups_to_delete) >= 1
    /\ Printed("  " \o stack_names(environment)[2] \o ": CREATE_COMPLETE")

\* the '[DRY RUN] Would empty bucket' lines printed so far, in order
IsEmptyIntent(line) == StartsWith(line, "  [DRY RUN] Would empty bucket: ")
EmptyIntents == SelectSeq(out, IsEmptyIntent)

\* C16: in a dry-run teardown with N discovered buckets, exactly N
\* '[DRY RUN] Would empty bucket' intents are printed, one per discovered
\* bucket in discovery order, and buckets_emptied, stacks_deleted and
\* log_groups_deleted are empty at the summary (and throughout the run).
C16_DryRunIntentsAndEmptySummary ==
    (tool = "cleanup" /\ dry_run) =>
        /\ Printed("PHASE 3: Clean Glue Resources") =>
             EmptyIntents = [n \in 1..Len(buckets_to_delete) |->
                                "  [DRY RUN] Would empty bucket: " \o buckets_to_delete[n]]
        /\ cleanup_summary.buckets_emptied = <<>>
        /\ cleanup_summary.stacks_deleted = <<>>
        /\ cleanup_summary.log_groups_deleted = <<>>

\* a dry run that reached its summary with two discovered buckets, a log
\* group and existing stacks
C16_Witness ==
    /\ tool = "cleanup" /\ dry_run /\ pc = "done" /\ Printed("CLEANUP SUMMARY")
    /\ Len(buckets_to_delete) = 2 /\ Len(EmptyIntents) = 2
    /\ Len(log_groups_to_delete) >= 1
    /\ Range(stack_names(environment)) \cap Range(account.stacks) # {}

\* the phase of cleanup() a call was issued in (0: construction)
CleanupPhase(c) ==
    IF DiscoveryCall(c) THEN 1
    ELSE IF c.at = "empty_buckets" THEN 2
    ELSE IF c.at \in {"glue_jobs", "glue_job", "glue_crawlers", "glue_crawler",
                      "glue_database", "glue_table", "glue_delete_database"} THEN 3
    ELSE IF c.at = "delete_stacks" THEN 4
    ELSE IF c.at \in {"orphan_log_groups", "orphan_buckets"} THEN 5
    ELSE 0

\* the headers cleanup() prints, in the order of lines 118-138
CleanupHeaders == << "PHASE 1: Resource Discovery",
                     "PHASE 2: Empty S3 Buckets",
                     "PHASE 3: Clean Glue Resources",
                     "PHASE 4: Delete CloudFormation Stacks",
                     "PHASE 5: Cleanup Orphaned Resources",
                     "CLEANUP SUMMARY" >>
IsCleanupHeader(line) == line \in Range(CleanupHeaders)

\* C17: a teardown run that passes the confirmation gate goes through its
\* phases in the fixed order discovery, storage emptying, managed-ETL
\* cleanup, stack deletion, orphan cleanup, summary (all of them unless an
\* error escapes); no delete_stack is issued before an emptying attempt was
\* made on every discovered bucket, and no delete_bucket is issued before the
\* stack-deletion phase has dealt with every stack.
C17_CleanupPhaseOrder ==
    tool = "cleanup" =>
        /\ \A i, j \in DOMAIN calls :
             i < j => CleanupPhase(calls[i]) <= CleanupPhase(calls[j])
        /\ SelectSeq(out, IsCleanupHeader)
             = SubSeq(CleanupHeaders, 1, Len(SelectSeq(out, IsCleanupHeader)))
        /\ (pc = "done" /\ ~raised /\ ~Printed("Cleanup cancelled")) =>
             SelectSeq(out, IsCleanupHeader) = CleanupHeaders
        /\ \A i \in DOMAIN calls :
             /\ calls[i].op = "delete_stack" =>
                  \A n \in DOMAIN buckets_to_delete :
                      \E h \in 1..(i - 1) :
                          /\ calls[h].op = "object_versions.delete"
                          /\ calls[h].arg = buckets_to_delete[n]
             /\ calls[i].op = "delete_bucket" =>
                  /\ Printed("PHASE 5: Cleanup Orphaned Resources")
                  /\ \A name \in Range(stack_names(environment)) :
                       \E h \in 1..(i - 1) :
                           /\ calls[h].op = "describe_stacks"
                           /\ calls[h].at = "delete_stacks"
                           /\ calls[h].arg = name
                  /\ \A h \in DOMAIN calls :
                       calls[h].op \in {"delete_stack", "wait:stack_delete_complete"} => h < i

\* a finished live run that emptied two buckets, deleted a catalog table, a
\* stack and a log group, and then deleted a bucket
C17_Witness ==
    /\ tool = "cleanup" /\ ~dry_run /\ pc = "done" /\ ~raised
    /\ Len(cleanup_summary.buckets_emptied) = 2
    /\ \E i \in DOMAIN calls : calls[i].op = "delete_table"
    /\ Len(cleanup_summary.stacks_deleted) >= 1
    /\ Len(cleanup_summary.log_groups_deleted) >= 1
    /\ \E i \in DOMAIN calls : calls[i].op = "delete_bucket" /\ ~CallFailed(calls[i])
    /\ Printed("CLEANUP SUMMARY")

\* the phase of deploy() a call was issued in (0: construction; 4: the read
\* of the base stack's outputs between Phase 3 and Phase 4)
DeployPhase(c) ==
    IF c.at \in {"clean_build", "build_lambda", "build_glue"} THEN 1
    ELSE IF c.at \in {"create_artifact_bucket", "upload_lambda", "upload_glue",
                      "upload_templates"} THEN 2
    ELSE IF c.at = "deploy_main" THEN 3
    ELSE IF c.at = "get_stack_outputs" THEN 4
    ELSE IF c.at = "deploy_appflow" THEN 5
    ELSE IF c.at \in {"upload_glue_scripts", "upload_lambda_code"} THEN 6
    ELSE 0

\* the object keys Phase 2 uploads to the artifact bucket
ArtifactKeys ==
    {"lambda/rag_query_handler-20240101-000000.zip"}
    \cup {"glue/scripts/" \o project.scripts[n] : n \in DOMAIN project.scripts}
    \cup {"cloudformation/" \o project.templates[n] : n \in DOMAIN project.templates}

\* C18: a deploy run applies the templates in the fixed two-stack order:
\* every artifact upload of Phase 2 precedes the first stack operation; the
\* create/update of the base stack and its wait have completed before any
\* create/update of the appflow stack is issued; the post-deployment file
\* placement happens only after the appflow stack step has returned.
C18_DeployPhaseOrder ==
    tool = "deploy" =>
        /\ \A i, j \in DOMAIN calls :
             i < j => DeployPhase(calls[i]) <= DeployPhase(calls[j])
        /\ \A i \in DOMAIN calls :
             /\ DeployPhase(calls[i]) >= 3 =>
                  \A key \in ArtifactKeys :
                      \E h \in 1..(i - 1) :
                          /\ calls[h].op = "upload_file" /\ DeployPhase(calls[h]) = 2
                          /\ calls[h].params["Key"] = key /\ ~CallFailed(calls[h])
             /\ AppflowCall(calls[i]) =>
                  /\ main_success = TRUE
                  /\ \E h \in 1..(i - 1) :
                       /\ StackChangeCall(calls[h])
                       /\ calls[h].arg = main_stack_name(environment)
                       /\ IF CallFailed(calls[h])
                          THEN Contains(calls[h].msg, "No updates are to be performed")
                          ELSE /\ h + 1 < i
                               /\ WaitCall(calls[h + 1])
                               /\ calls[h + 1].arg = main_stack_name(environment)
                               /\ ~CallFailed(calls[h + 1])
             /\ PlacementCall(calls[i]) =>
                  /\ appflow_success \in BOOLEAN
                  /\ Printed("PHASE 5: Post-Deployment Configuration")
                  /\ \E h \in 1..(i - 1) :
                       /\ calls[h].op = "describe_stacks" /\ calls[h].at = "deploy_appflow"
                       /\ calls[h].arg = appflow_stack_name(environment)

\* a finished deploy that uploaded two templates and a script, created both
\* stacks and placed the files
C18_Witness ==
    /\ tool = "deploy" /\ pc = "done" /\ ~raised
    /\ Len(project.templates) = 2 /\ Len(project.scripts) >= 1
    /\ \E i \in CallsOf("create_stack", main_stack_name(environment)) : ~CallFailed(calls[i])
    /\ \E i \in CallsOf("create_stack", appflow_stack_name(environment)) : ~CallFailed(calls[i])
    /\ \E i \in DOMAIN calls : PlacementCall(calls[i]) /\ calls[i].at = "upload_lambda_code"
    /\ Printed("DEPLOYMENT COMPLETE")

\* a create, update or delete of a stack that the provider accepted
StartedStackOp(c) ==
    c.op \in {"create_stack", "update_stack", "delete_stack"} /\ ~CallFailed(c)

\* the waiter that belongs to a stack operation
WaiterOf(op) ==
    IF op = "create_stack" THEN "wait:stack_create_complete"
    ELSE IF op = "update_stack" THEN "wait:stack_update_complete"
    ELSE "wait:stack_delete_complete"

\* every started stack operation is directly followed by the wait for it,
\* configured with a delay of 30 seconds and at most 60 attempts; the wait
\* ends in completion or in a WaiterError
StartedOpsAreAwaited ==
    \A i \in DOMAIN calls :
        StartedStackOp(calls[i]) =>
            /\ i < Len(calls)
            /\ calls[i + 1].op = WaiterOf(calls[i].op)
            /\ calls[i + 1].arg = calls[i].arg
            /\ calls[i + 1].params = [Delay |-> 30, MaxAttempts |-> 60]
            /\ calls[i + 1].exc \in {"", "WaiterError"}

\* the positions of a run in the order the code goes through them
CleanupOrder == << "start", "discover_buckets", "discover_log_groups", "discover_stacks",
                   "empty_buckets", "glue_jobs", "glue_job", "glue_crawlers",
                   "glue_crawler", "glue_database", "glue_table", "glue_delete_database",
                   "delete_stacks", "orphan_log_groups", "orphan_buckets", "done" >>
DeployOrder == << "start", "clean_build", "build_lambda", "build_glue",
                  "create_artifact_bucket", "upload_lambda", "upload_glue",
                  "upload_templates", "deploy_main", "get_stack_outputs", "deploy_appflow",
                  "upload_glue_scripts", "upload_lambda_code", "done" >>
RunOrder == IF tool = "cleanup" THEN CleanupOrder ELSE DeployOrder
OrderOf(p) == CHOOSE n \in DOMAIN RunOrder : RunOrder[n] = p

\* a step moves the run to a later position, or to the next iteration of the
\* loop it is in
Advances ==
    \/ OrderOf(pc') > OrderOf(pc)
    \/ pc' = pc /\ idx' > idx

\* the loops run over finite lists
LoopsAreBounded ==
    idx <= 1 + MaxHeld + Len(stack_names(environment))

\* a wait that was begun has ended, and the stack step with it: teardown has
\* listed the stack as deleted or recorded the failure; deploy_stack has
\* returned True, or the failure of the wait has ended the run
WaitsHaveEnded ==
    \A i \in DOMAIN calls :
        WaitCall(calls[i]) =>
            IF tool = "cleanup"
            THEN IF CallFailed(calls[i])
                 THEN \E k \in DOMAIN cleanup_summary.errors :
                         cleanup_summary.errors[k]
                           = "Could not delete stack " \o calls[i].arg \o ": " \o calls[i].msg
                 ELSE calls[i].arg \in Range(cleanup_summary.stacks_deleted)
            ELSE IF CallFailed(calls[i])
                 THEN pc = "done" /\ i = Len(calls)
                 ELSE StepResult(calls[i]) = TRUE

\* C19: every stack operation that is started (create, update or delete) is
\* followed by a wait that polls at most 60 times with a fixed 30-second
\* delay and ends in completion or in failure, so each stack step, and with
\* it each deploy or teardown run, terminates: every step advances the run
\* through a finite sequence of positions and bounded loops.
C19_BoundedWaitsAndTermination ==
    /\ [](StartedOpsAreAwaited /\ WaitsHaveEnded /\ LoopsAreBounded)
    /\ [][Advances]_vars

\* a finished teardown in which the wait for a stack deletion ran out of attempts
C19_Witness ==
    /\ pc = "done"
    /\ \E i \in DOMAIN calls :
         /\ calls[i].op = "wait:stack_delete_complete"
         /\ calls[i].msg = "Max attempts exceeded"
         /\ StartedStackOp(calls[i - 1])

\* a failed call whose exception no handler below cleanup() / deploy()
\* catches: in teardown a describe_stacks of discovery that fails with
\* something else than a ClientError; in deploy a failed pip install or
\* upload, and inside deploy_stack any failure that is not a ClientError
EscapingFailure(c) ==
    /\ CallFailed(c)
    /\ IF tool = "cleanup"
       THEN c.at = "discover_stacks" /\ ~IsClientError(c)
       ELSE \/ c.op \in {"pip install", "upload_file"}
            \/ c.at \in {"deploy_main", "deploy_appflow"} /\ ~IsClientError(c)

\* the line the top-level handler prints
FailureLine(e) ==
    (IF tool = "cleanup" THEN "Cleanup failed: " ELSE "Deployment failed: ") \o e.msg

\* when an error has escaped, the run has ended there: the handler printed
\* the failure as its last line, the failing call is the last call, and no
\* summary was printed
AbortedRun ==
    /\ \A i \in DOMAIN calls : EscapingFailure(calls[i]) => (raised /\ i = Len(calls))
    /\ raised =>
         /\ pc = "done"
         /\ \/ EscapingFailure(calls[Len(calls)])
                 /\ out[Len(out)] = FailureLine(calls[Len(calls)])
            \/ tool = "deploy" /\ out[Len(out)] = FailureLine(FileNotFound)
         /\ ~Printed("CLEANUP SUMMARY") /\ ~Printed("DEPLOYMENT COMPLETE")

\* C20: an unexpected error that escapes a phase of cleanup() or deploy()
\* aborts the whole run and propagates to the caller: the top-level handler
\* prints it and re-raises, no later phase runs (no step is taken after the
\* raise), and the summary is not printed.
C20_EscapedErrorAbortsRun ==
    /\ []AbortedRun
    /\ [][~raised]_vars

\* a deploy aborted in Phase 2 by a failed upload, after the artifact bucket
\* was created
C20_Witness ==
    /\ tool = "deploy" /\ raised
    /\ calls[Len(calls)].op = "upload_file" /\ calls[Len(calls)].at = "upload_glue"
    /\ ~Printed("PHASE 3: Deploying Main Infrastructure")

\* the crawlers of the account whose name starts with '{project}-{environment}'
MatchingCrawlers ==
    {n \in Range(account.crawlers) : StartsWith(n, "housing-market-intel-" \o environment)}

\* C21: in live crawler cleanup, for each crawler with the
\* '{project}-{environment}' prefix that the loop comes to, a stop is
\* attempted first and delete_crawler is then issued whether or not the stop
\* failed (after a sleep when the stop succeeded); a failed stop is neither
\* recorded nor propagated.  When the listing and every delete succeed, the
\* loop comes to every such crawler.
C21_StopThenDeleteCrawler ==
    tool = "cleanup" =>
        /\ \A i \in DOMAIN calls :
             /\ calls[i].op = "stop_crawler" =>
                  LET k == IF CallFailed(calls[i]) THEN i + 1 ELSE i + 2
                  IN /\ ~dry_run
                     /\ calls[i].arg \in MatchingCrawlers
                     /\ k <= Len(calls)
                     /\ calls[k].op = "delete_crawler" /\ calls[k].arg = calls[i].arg
                     /\ ~CallFailed(calls[i]) => calls[i + 1].op = "time.sleep"
                     /\ CallFailed(calls[i]) =>
                          /\ ~raised
                          /\ \A n \in DOMAIN cleanup_summary.errors :
                               ~Contains(cleanup_summary.errors[n], calls[i].arg)
                          /\ \A n \in DOMAIN out : ~Contains(out[n], calls[i].arg)
             /\ calls[i].op = "delete_crawler" =>
                  \E h \in {i - 2, i - 1} :
                      /\ h >= 1
                      /\ calls[h].op = "stop_crawler" /\ calls[h].arg = calls[i].arg
        /\ (Printed("PHASE 4: Delete CloudFormation Stacks") /\ ~dry_run
              /\ (\E i \in DOMAIN calls : calls[i].op = "get_crawlers" /\ ~CallFailed(calls[i]))
              /\ (\A j \in DOMAIN calls : calls[j].op = "delete_crawler" => ~CallFailed(calls[j]))) =>
             \A n \in MatchingCrawlers :
                 /\ Cardinality(CallsOf("stop_crawler", n)) = 1
                 /\ Cardinality(CallsOf("delete_crawler", n)) = 1

\* the stop of a crawler failed and the crawler was deleted all the same
C21_Witness ==
    /\ tool = "cleanup" /\ pc = "done" /\ ~raised
    /\ \E i \in DOMAIN calls :
         /\ calls[i].op = "stop_crawler" /\ CallFailed(calls[i])
         /\ calls[i + 1].op = "delete_crawler" /\ ~CallFailed(calls[i + 1])
    /\ cleanup_summary.errors = <<>>

(***************************************************************************)
(* Properties of the cost estimator.                                       *)
(***************************************************************************)
EstimatorRun == tool = "cost_estimator"
Calculated(key) == EstimatorRun /\ key \in DOMAIN costs
CategoriesDone == EstimatorRun /\ Len(breakdown) = Len(categories)
ServicesOf(i) == Range(categories[i].services)
CategoryCosts == [i \in 1..Len(breakdown) |-> breakdown[i].category_cost]
Percentages == [i \in 1..Len(breakdown) |-> breakdown[i].percentage]

\* C22: whenever the category section of a report is complete and the total
\* monthly cost is not zero, the seven category lists are duplicate-free,
\* pairwise disjoint and cover exactly the twelve keys of the dict of line
\* items, the category costs add up to the grand total, and the seven
\* percentages add up to 100 (both within floating-point tolerance: to four
\* decimals of a dollar and six decimals of a percent).
C22_CategoryPercentagesSumTo100 ==
    (CategoriesDone /\ FLt(Zero, totals.monthly)) =>
        /\ \A i \in DOMAIN categories :
             Cardinality(ServicesOf(i)) = Len(categories[i].services)
        /\ \A i, j \in DOMAIN categories : i # j => ServicesOf(i) \cap ServicesOf(j) = {}
        /\ UNION {ServicesOf(i) : i \in DOMAIN categories} = DOMAIN costs
        /\ DOMAIN costs = Range(ServiceKeys)
        /\ Cardinality(DOMAIN costs) = 12
        /\ Fixed(FSum(CategoryCosts), 4) = Fixed(totals.monthly, 4)
        /\ Fixed(FSum(Percentages), 6) = 100 * 10^6

\* a complete category section whose percentages add up to 100 only within
\* the tolerance (the float sum is not exactly 100.0)
C22_Witness ==
    /\ CategoriesDone /\ pc = "returned"
    /\ FLt(Zero, totals.monthly)
    /\ FSum(Percentages) # Float(100)
    /\ Fixed(FSum(Percentages), 6) = 100 * 10^6

\* (0.045 + 0.5 x 0.045) x 24 x 30 x 2.0, evaluated as Python evaluates it
ProdNatFormula ==
    FMul(FMul(FMul(FAdd(Lit(45, 3), FMul(Lit(5, 1), Lit(45, 3))), Float(24)), Float(30)),
         Float(2))

\* C23 as stated: for prod the NAT gateway monthly cost is the formula
\* above and prints as $48.60.
C23_ProdNatMonthlyIs4860 ==
    (Calculated("nat_gateway") /\ estimator.environment = "prod") =>
        /\ costs["nat_gateway"].monthly_cost = ProdNatFormula
        /\ Fixed(costs["nat_gateway"].monthly_cost, 2) = 4860

\* C23 amended: for prod, in every volume tier, the NAT gateway monthly cost
\* is the formula above, which is 97.2 and prints as $97.20; $48.60 is the
\* cost before the multiplier, which is the dev value.
C23_ProdNatMonthlyIs9720 ==
    Calculated("nat_gateway") =>
        /\ estimator.environment = "prod" =>
             /\ costs["nat_gateway"].monthly_cost = ProdNatFormula
             /\ costs["nat_gateway"].monthly_cost = Lit(972, 1)
             /\ Fixed(costs["nat_gateway"].monthly_cost, 2) = 9720
        /\ estimator.environment = "dev" =>
             Fixed(costs["nat_gateway"].monthly_cost, 2) = 4860

C23_Witness ==
    /\ Calculated("nat_gateway") /\ pc = "returned"
    /\ estimator.environment = "prod" /\ estimator.data_volume = "HIGH"
    /\ Fixed(costs["nat_gateway"].monthly_cost, 2) = 9720

\* the NAT gateway amounts before the environment multiplier
NatBase ==
    [hourly |-> FAdd(Lit(45, 3), FMul(Lit(5, 1), Lit(45, 3))),
     daily |-> FMul(FAdd(Lit(45, 3), FMul(Lit(5, 1), Lit(45, 3))), Float(24)),
     monthly |-> FMul(FMul(FAdd(Lit(45, 3), FMul(Lit(5, 1), Lit(45, 3))), Float(24)),
                      Float(30)),
     hourly_charge |-> Lit(45, 3),
     data_processing |-> FMul(Lit(5, 1), Lit(45, 3))]

\* every cost field of the NAT gateway line item is its base amount times m
NatMultipliedBy(nat, m) ==
    /\ nat.hourly_cost = FMul(NatBase.hourly, m)
    /\ nat.daily_cost = FMul(NatBase.daily, m)
    /\ nat.monthly_cost = FMul(NatBase.monthly, m)
    /\ Len(nat.cost_components) = 2
    /\ nat.cost_components[1] = Component("hourly_charge", FMul(NatBase.hourly_charge, m))
    /\ nat.cost_components[2] = Component("data_processing",
                                          FMul(NatBase.data_processing, m))

\* C24: the multiplier of every NAT gateway cost field (hourly, daily,
\* monthly and both breakdown entries) is exactly 2.0 for prod, although the
\* table of the estimator says 3.0 for prod; for dev and staging it is the
\* table's value, 1.0 and 1.5.
C24_ProdNatMultiplierIsTwo ==
    Calculated("nat_gateway") =>
        /\ estimator.env_multipliers =
             [dev |-> Float(1), staging |-> Lit(15, 1), prod |-> Float(3)]
        /\ estimator.environment = "prod" =>
             /\ NatMultipliedBy(costs["nat_gateway"], Float(2))
             /\ ~NatMultipliedBy(costs["nat_gateway"], estimator.env_multipliers["prod"])
        /\ estimator.environment # "prod" =>
             NatMultipliedBy(costs["nat_gateway"],
                             estimator.env_multipliers[estimator.environment])

C24_Witness ==
    /\ Calculated("nat_gateway") /\ estimator.environment = "prod"
    /\ estimator.env_multipliers["prod"] = Float(3)
    /\ costs["nat_gateway"].hourly_cost = FMul(NatBase.hourly, Float(2))
    /\ Fixed(costs["nat_gateway"].daily_cost, 2) = 324

\* C25: for the LOW volume tier, in every environment, the embedding
\* request count is 100,000 and the 'embeddings' entry of the Bedrock
\* breakdown is (100,000 x 500 / 1000) x 0.0001, which is exactly 5.0 ($5.00).
C25_LowEmbeddingCostIsFive ==
    (Calculated("bedrock") /\ estimator.data_volume = "LOW") =>
        /\ estimator.volume_config["LOW"].embedding_requests = 100000
        /\ costs["bedrock"].cost_components[1].name = "embeddings"
        /\ costs["bedrock"].cost_components[1].amount =
             FMul(FDiv(Float(100000 * 500), Float(1000)), Lit(1, 4))
        /\ costs["bedrock"].cost_components[1].amount = Float(5)
        /\ Fixed(costs["bedrock"].cost_components[1].amount, 2) = 500

C25_Witness ==
    /\ Calculated("bedrock") /\ estimator.data_volume = "LOW"
    /\ estimator.environment = "dev"
    /\ Fixed(costs["bedrock"].cost_components[1].amount, 2) = 500

Amounts(c) == [i \in 1..Len(c.cost_components) |-> c.cost_components[i].amount]

\* C26 as stated: for every line item, the entries of cost_components add up
\* to its monthly_cost.
C26_BreakdownSumsToMonthly ==
    EstimatorRun =>
        \A key \in DOMAIN costs : FSum(Amounts(costs[key])) = costs[key].monthly_cost

\* the line items computed for the other environments, same volume tier
InEnvironment(e, key) == calculate(CostEstimator(e, estimator.data_volume), key)

\* C27: with the volume tier fixed, every line item other than the NAT
\* gateway and OpenSearch is the same for dev, staging and prod; the NAT
\* gateway's monthly cost is its base cost times the environment multiplier
\* (2.0 for prod), and the NAT gateway and OpenSearch costs do differ
\* between any two environments.  (Stated where the dict of line items is
\* built; no later step changes it.)
C27_EnvironmentChangesNatAndOpenSearchOnly ==
    (EstimatorRun /\ pc \in {"calculate_all_costs", "totals"}) =>
        \A key \in DOMAIN costs :
            /\ key \notin {"nat_gateway", "opensearch"} =>
                 \A e \in Environments : costs[key] = InEnvironment(e, key)
            /\ key \in {"nat_gateway", "opensearch"} =>
                 \A e \in Environments \ {estimator.environment} :
                     costs[key].monthly_cost # InEnvironment(e, key).monthly_cost
            /\ key = "nat_gateway" =>
                 costs[key].monthly_cost =
                     FMul(NatBase.monthly,
                          IF estimator.environment = "prod" THEN Float(2)
                          ELSE estimator.env_multipliers[estimator.environment])

C27_Witness ==
    /\ EstimatorRun /\ pc = "totals"
    /\ estimator.environment = "staging"
    /\ costs["glue"] = InEnvironment("prod", "glue")
    /\ Fixed(costs["nat_gateway"].monthly_cost, 2) = 7290

AfterMainCall(c) ==
    c.at \in {"get_stack_outputs", "deploy_appflow", "upload_glue_scripts", "upload_lambda_code"}

\* deploy_stack has returned for the base stack: it made its calls and the
\* run did not end in an error escaping from it
MainStepReturned ==
    /\ tool = "deploy"
    /\ \E i \in DOMAIN calls : calls[i].at = "deploy_main"
    /\ ~(raised /\ calls[Len(calls)].at = "deploy_main")

\* C29: if deploy_stack returns False for the base (main) stack, deploy()
\* returns at once: it logs the failure as its last line and raises nothing;
\* no call on the appflow stack is issued, the outputs of the base stack are
\* not read, nothing is uploaded after the deployment, and neither the
\* Phase 4 and Phase 5 headers nor 'DEPLOYMENT COMPLETE' nor the output
\* summary is printed.
C29_FailedMainStepReturns ==
    (MainStepReturned /\ main_success = FALSE) =>
        /\ pc = "done" /\ ~raised
        /\ out[Len(out)] = "Main infrastructure deployment failed"
        /\ calls[Len(calls)].at = "deploy_main"
        /\ \A i \in DOMAIN calls :
             /\ ~AfterMainCall(calls[i])
             /\ calls[i].arg # appflow_stack_name(environment)
             /\ ~PlacementCall(calls[i])
        /\ main_outputs = "unset" /\ appflow_success = "unset"
        /\ ~Printed("PHASE 4: Deploying AppFlow Data Ingestion")
        /\ ~Printed("PHASE 5: Post-Deployment Configuration")
        /\ ~Printed("DEPLOYMENT COMPLETE")
        /\ ~Printed("Deployment Outputs:")

\* the create of the base stack was rejected and deploy_stack returned False
C29_Witness ==
    /\ MainStepReturned /\ main_success = FALSE
    /\ calls[Len(calls)].op = "create_stack"
    /\ calls[Len(calls)].arg = main_stack_name(environment)
    /\ CallFailed(calls[Len(calls)])

\* deploy_stack has returned for the appflow stack
AppflowStepReturned ==
    /\ tool = "deploy"
    /\ \E i \in DOMAIN calls : calls[i].at = "deploy_appflow"
    /\ ~(raised /\ calls[Len(calls)].at = "deploy_appflow")

\* the placement of Phase 5 has put the Lambda archive into the scripts bucket
LambdaCodePlaced ==
    \E i \in DOMAIN calls :
        /\ PlacementCall(calls[i]) /\ ~CallFailed(calls[i])
        /\ calls[i].params["Key"] = "lambda/rag_query_handler.zip"

DeletedAndAwaited(name) ==
    \E i \in DOMAIN calls :
        /\ i + 2 <= Len(calls)
        /\ calls[i].op = "describe_stacks" /\ calls[i].at = "delete_stacks"
        /\ calls[i + 1].op = "delete_stack" /\ calls[i + 2].op = "wait:stack_delete_complete"
        /\ \A k \in i..(i + 2) : calls[k].arg = name /\ ~CallFailed(calls[k])

\* an entry of cleanup_summary['errors'] names the stack or bucket
NamedInErrors(what, name) ==
    \E k \in DOMAIN cleanup_summary.errors :
        StartsWith(cleanup_summary.errors[k], what \o name \o ": ")

NoDuplicates(list) == Cardinality(Range(list)) = Len(list)

\* C31: in every reachable state of a teardown run the summary accumulator
\* is consistent: stacks_deleted has no duplicate, holds configured stack
\* names only, and holds a stack only if its describe, its delete_stack and
\* its wait all succeeded; buckets_emptied is within buckets_to_delete and
\* log_groups_deleted within log_groups_to_delete; no stack and no bucket is
\* both in its success list and named in an errors entry.
C31_SummaryIsConsistent ==
    (tool = "cleanup" /\ cleanup_summary # NewSummary) =>
        /\ NoDuplicates(cleanup_summary.stacks_deleted)
        /\ Range(cleanup_summary.stacks_deleted) \subseteq Range(stack_names(environment))
        /\ \A name \in Range(cleanup_summary.stacks_deleted) :
             /\ DeletedAndAwaited(name)
             /\ \A i \in DOMAIN calls :
                  (calls[i].at = "delete_stacks" /\ calls[i].arg = name) => ~CallFailed(calls[i])
             /\ ~NamedInErrors("Could not delete stack ", name)
        /\ Range(cleanup_summary.buckets_emptied) \subseteq Range(buckets_to_delete)
        /\ NoDuplicates(cleanup_summary.buckets_emptied)
        /\ \A name \in Range(cleanup_summary.buckets_emptied) :
             ~NamedInErrors("Could not empty bucket ", name)
        /\ Range(cleanup_summary.log_groups_deleted) \subseteq Range(log_groups_to_delete)

\* a live run that ended with one stack deleted and the other one failed in
\* its wait, one bucket emptied and another one refused, a log group deleted
C31_Witness ==
    /\ tool = "cleanup" /\ pc = "done" /\ ~dry_run
    /\ Len(cleanup_summary.stacks_deleted) = 1
    /\ \E name \in Range(stack_names(environment)) :
         /\ NamedInErrors("Could not delete stack ", name)
         /\ \E i \in CallsOf("wait:stack_delete_complete", name) : CallFailed(calls[i])
    /\ Len(cleanup_summary.buckets_emptied) >= 1
    /\ \E name \in Range(buckets_to_delete) : NamedInErrors("Could not empty bucket ", name)
    /\ Len(cleanup_summary.log_groups_deleted) >= 1

\* the calls of the stack step of _delete_stacks on a stack
StackStepCallsOn(name) ==
    {i \in DOMAIN calls : calls[i].at = "delete_stacks" /\ calls[i].arg = name}

\* C32: teardown goes through the stacks in the reverse of the deployment
\* order.  deploy() changes the base (main) stack before the appflow stack;
\* teardown has ended its step on the appflow stack before delete_stack is
\* issued for the main stack: the appflow stack was looked up, every call on
\* it lies before, and where its delete_stack was accepted the wait for it
\* has ended (successfully or not).  The main stack is never deleted first.
C32_TeardownReversesDeployOrder ==
    /\ tool = "deploy" =>
         \A i \in DOMAIN calls :
             AppflowCall(calls[i]) =>
                 \E h \in 1..(i - 1) :
                     StackChangeCall(calls[h]) /\ calls[h].arg = main_stack_name(environment)
    /\ tool = "cleanup" =>
         /\ \A i \in CallsOf("delete_stack", main_stack_name(environment)) :
              /\ \E h \in StackStepCallsOn(appflow_stack_name(environment)) :
                   h < i /\ calls[h].op = "describe_stacks"
              /\ \A h \in StackStepCallsOn(appflow_stack_name(environment)) :
                   /\ h < i
                   /\ (calls[h].op = "delete_stack" /\ ~CallFailed(calls[h])) =>
                        /\ h + 1 < i
                        /\ calls[h + 1].op = "wait:stack_delete_complete"
                        /\ calls[h + 1].arg = appflow_stack_name(environment)
         /\ \A i \in CallsOf("delete_stack", appflow_stack_name(environment)) :
              \A h \in 1..(i - 1) :
                  ~(calls[h].at = "delete_stacks" /\ calls[h].arg = main_stack_name(environment))

\* the wait for the appflow stack's deletion failed, and delete_stack was then
\* issued for the main stack
C32_Witness ==
    /\ tool = "cleanup"
    /\ \E i \in CallsOf("delete_stack", main_stack_name(environment)) :
         \E h \in CallsOf("wait:stack_delete_complete", appflow_stack_name(environment)) :
             h < i /\ CallFailed(calls[h])

\* the jobs of the account whose name starts with '{project}-{environment}'
MatchingJobs ==
    {n \in Range(account.jobs) : StartsWith(n, "housing-market-intel-" \o environment)}

\* the provider holds nothing a teardown of this environment looks for: the
\* state a run that removed every matching resource leaves behind
NothingToClean ==
    /\ ExpectedBuckets = <<>> /\ ExpectedLogGroups = <<>>
    /\ MatchingJobs = {} /\ MatchingCrawlers = {}
    /\ db_name(environment) \notin Range(account.databases)
    /\ Range(stack_names(environment)) \cap Range(account.stacks) = {}

\* a live forced run on such an account in which the provider answers every
\* call (with its result, or with the error that says the resource is absent)
SecondRun ==
    /\ tool = "cleanup" /\ ~dry_run /\ force
    /\ NothingToClean
    /\ Faults = 0

\* C33: teardown is idempotent across runs.  A live forced run on an account
\* that holds no matching bucket, log group, job, crawler, database or stack
\* any more issues no delete_stack, no bucket or log-group delete and no
\* object-version delete (of the mutating calls only delete_database, which
\* ends with 'not found'); it raises nothing, keeps stacks_deleted,
\* buckets_emptied, log_groups_deleted and errors empty, and ends with the
\* summary.
C33_SecondRunIsClean ==
    SecondRun =>
        /\ \A i \in DOMAIN calls :
             /\ calls[i].op \notin {"delete_stack", "wait:stack_delete_complete", "delete_bucket",
                                    "delete_log_group", "object_versions.delete"}
             /\ calls[i].op \in MutatingOps =>
                  (calls[i].op = "delete_database" /\ calls[i].exc = "EntityNotFoundException")
        /\ ~raised
        /\ cleanup_summary = NewSummary
        /\ ~Printed("Cleanup cancelled")
        /\ pc = "done" => (Printed("CLEANUP SUMMARY") /\ out[Len(out)] = "Cleanup complete!")

\* such a run, on an account that still holds resources of other
\* environments, has ended with its summary
C33_Witness ==
    /\ SecondRun /\ pc = "done"
    /\ Len(account.buckets) >= 2 /\ Len(account.stacks) >= 2
    /\ Printed("CLEANUP SUMMARY")
    /\ \E i \in DOMAIN calls : calls[i].op = "delete_database"
    /\ Cardinality(CallsOf("describe_stacks", main_stack_name(environment))) = 2

\* ---------------------------------------------------------------------------
\* Properties of managed-ETL cleanup and of the post-deployment placement.
\* ---------------------------------------------------------------------------

\* a delete of a job or of a crawler failed
FailedDelete(c, op) == c.op = op /\ CallFailed(c)

\* after call i the run went on to the database, to both stacks and to the
\* summary
LaterPhasesRan(i) ==
    /\ \E j \in (i + 1)..Len(calls) : calls[j].op = "delete_database"
    /\ \A name \in Range(stack_names(environment)) :
         \E j \in (i + 1)..Len(calls) :
             /\ calls[j].op = "describe_stacks" /\ calls[j].at = "delete_stacks"
             /\ calls[j].arg = name
    /\ Printed("PHASE 4: Delete CloudFormation Stacks")
    /\ Printed("PHASE 5: Cleanup Orphaned Resources")
    /\ Printed("CLEANUP SUMMARY")

\* C34: in live managed-ETL cleanup a failed delete of a matching job ends
\* the deletion of jobs for this run, and a failed delete of a matching
\* crawler that of crawlers: no later delete (or stop) of that kind is
\* issued.  The failure is logged as a warning, nothing is raised and
\* nothing is recorded in cleanup_summary['errors'], whose entries are those
\* of buckets and stacks only; the run goes on with the next sub-step (the
\* crawlers after the jobs, the database after the crawlers) and with the
\* later phases up to the summary.
C34_GlueDeleteFailureStopsItsKindOnly ==
    tool = "cleanup" =>
        /\ \A i \in DOMAIN calls :
             /\ FailedDelete(calls[i], "delete_job") =>
                  /\ \A j \in (i + 1)..Len(calls) : calls[j].op # "delete_job"
                  /\ Printed("Could not clean Glue jobs: " \o calls[i].msg)
                  /\ ~raised /\ pc # "glue_job"
                  /\ i < Len(calls) => calls[i + 1].op = "get_crawlers"
                  /\ pc = "done" => LaterPhasesRan(i)
             /\ FailedDelete(calls[i], "delete_crawler") =>
                  /\ \A j \in (i + 1)..Len(calls) :
                       calls[j].op \notin {"stop_crawler", "delete_crawler"}
                  /\ Printed("Could not clean Glue crawlers: " \o calls[i].msg)
                  /\ ~raised /\ pc # "glue_crawler"
                  /\ i < Len(calls) => calls[i + 1].op = "get_tables"
                  /\ pc = "done" => LaterPhasesRan(i)
        /\ \A k \in DOMAIN cleanup_summary.errors :
             \/ StartsWith(cleanup_summary.errors[k], "Could not empty bucket ")
             \/ StartsWith(cleanup_summary.errors[k], "Could not delete stack ")

\* the delete of the first of two matching jobs failed: the second job was
\* left alone, the crawlers were deleted and the run ended with its summary
C34_Witness ==
    /\ tool = "cleanup" /\ pc = "done"
    /\ Cardinality(MatchingJobs) = 2
    /\ \E i \in DOMAIN calls : FailedDelete(calls[i], "delete_job")
    /\ Cardinality({i \in DOMAIN calls : calls[i].op = "delete_job"}) = 1
    /\ \E i \in DOMAIN calls : calls[i].op = "delete_crawler" /\ ~CallFailed(calls[i])
    /\ cleanup_summary.errors = <<>>
    /\ Printed("CLEANUP SUMMARY")

\* the bucket name the placement is to use: the ProcessedDataBucketName
\* output of the base stack with 'processed' replaced by 'glue-scripts'
DerivedBucket ==
    Replace(main_outputs["ProcessedDataBucketName"], "processed", "glue-scripts")

\* the output is missing or empty
NoProcessedBucketOutput ==
    "ProcessedDataBucketName" \in DOMAIN main_outputs => main_outputs["ProcessedDataBucketName"] = ""

\* C35: the post-deployment placement uploads only to the bucket whose name
\* is the base stack's ProcessedDataBucketName output with 'processed'
\* replaced by 'glue-scripts' (the scripts under 'scripts/', the archive as
\* 'lambda/rag_query_handler.zip').  When that output is missing or empty,
\* also because reading the outputs failed, Phase 5 issues no upload call at
\* all and the run still ends with 'DEPLOYMENT COMPLETE', raising nothing.
C35_PlacementBucketIsDerived ==
    AppflowStepReturned =>
        /\ \A i \in DOMAIN calls :
             PlacementCall(calls[i]) =>
                 /\ ~NoProcessedBucketOutput
                 /\ calls[i].arg = DerivedBucket
                 /\ calls[i].arg = project_name \o "-" \o environment \o "-glue-scripts-data"
                 /\ \/ StartsWith(calls[i].params["Key"], "scripts/")
                    \/ calls[i].params["Key"] = "lambda/rag_query_handler.zip"
        /\ NoProcessedBucketOutput =>
             /\ \A i \in DOMAIN calls : ~PlacementCall(calls[i])
             /\ ~raised
             /\ pc = "done" => Printed("DEPLOYMENT COMPLETE")
        /\ (pc = "done" /\ ~raised /\ ~NoProcessedBucketOutput) => LambdaCodePlaced

\* reading the outputs of the base stack failed, and the run ended with
\* 'DEPLOYMENT COMPLETE' after a Phase 5 without upload
C35_Witness ==
    /\ AppflowStepReturned /\ pc = "done"
    /\ main_outputs = EmptyMap
    /\ \E i \in DOMAIN calls :
         calls[i].at = "get_stack_outputs" /\ CallFailed(calls[i])
    /\ Printed("PHASE 5: Post-Deployment Configuration")
    /\ Printed("DEPLOYMENT COMPLETE")

\* the output was reported with an empty value and nothing was uploaded
C35_BlankOutputReached ==
    /\ AppflowStepReturned /\ pc = "done"
    /\ "ProcessedDataBucketName" \in DOMAIN main_outputs
    /\ main_outputs["ProcessedDataBucketName"] = ""
    /\ Printed("DEPLOYMENT COMPLETE")

====
